---- MODULE Spec2Model ----
(***************************************************************************)
(* Control logic of the breast-MRI preprocessing pipeline                  *)
(* (src/breast_mri_prep_func.py, src/mammo_prep.py): the series matcher,   *)
(* the conversion stage, the registration orchestrator, the masking stage  *)
(* and the metadata serializer, modelled as state machines over the case   *)
(* bundle (ser_dict) and the files on disk.                                *)
(*                                                                         *)
(* Strings the code inspects character by character (series descriptions,  *)
(* regex patterns) are tuples of one-character strings.  A python dict is  *)
(* a function whose DOMAIN is its key set, so "key in d" is                *)
(* key \in DOMAIN d.                                                       *)
(***************************************************************************)
EXTENDS Integers, Sequences, FiniteSets, TLC

VARIABLES
    catalog,    \* what get_series returned: dicoms, hdrs, series, dirs
    ser_dict,   \* the case bundle: role name -> role entry (a dict)
    matched,    \* role name -> the indices substr_list reported as matched
    fs,         \* the files on disk: file name -> number of times written
    repeat,     \* the repeat flag the running stage was called with
    sorted_keys,\* reg_series: the role order it computed
    pos,        \* reg_series: <<stage, index>> of the loop iteration last run
    calls,      \* the external-tool invocations so far, in order
    errors,     \* the roles whose failure the running stage caught and logged
    run,        \* 1 in the first run of a stage, 2 when it is run again
    snap,       \* the bundle the running stage received; in a second run
                \* also the files and logged failures the first run left
    batch,      \* the locals of the batch driver loop of mammo_prep
    param,      \* the role-configuration file of the case
    vol,        \* split_dwi: the 4-D volume, its b-values and the split result
    pc          \* the position of the case in the pipeline

vars == <<catalog, ser_dict, matched, fs, repeat, sorted_keys, pos, calls,
          errors, run, snap, batch, param, vol, pc>>

(***************************************************************************)
(* Strings                                                                 *)
(***************************************************************************)
\* the literal "None" the code uses as its sentinel
NoneStr == <<"N", "o", "n", "e">>

\* str.lower() on one character, for the letters the model's strings use
LowerChar(c) ==
    CASE c = "A" -> "a" [] c = "D" -> "d" [] c = "E" -> "e" [] c = "O" -> "o"
      [] c = "P" -> "p" [] c = "R" -> "r" [] c = "S" -> "s" [] c = "T" -> "t"
      [] c = "X" -> "x" [] c = "N" -> "n"
      [] OTHER -> c

\* str.lower()
Lower(s) == [i \in 1..Len(s) |-> LowerChar(s[i])]

\* item in string: python substring test
Contains(item, s) ==
    \E i \in 1..(Len(s) - Len(item) + 1) :
        \A j \in 1..Len(item) : s[i + j - 1] = item[j]

\* a regex of literals and "." matches s at offset i
MatchAt(p, s, i) ==
    /\ i + Len(p) - 1 <= Len(s)
    /\ \A j \in 1..Len(p) : p[j] = "." \/ p[j] = s[i + j - 1]

\* re.search(item, string) for regexes built from literal characters, the
\* wildcard "." and a leading anchor "^": a match anywhere in the string
re_search(p, s) ==
    IF Len(p) > 0 /\ p[1] = "^"
    THEN MatchAt(Tail(p), s, 1)
    ELSE \E i \in 1..(Len(s) + 1) : MatchAt(p, s, i)

(***************************************************************************)
(* Series Matcher: substr_list and filter_series                           *)
(***************************************************************************)
\* mutant of AllMatch: any() in place of all()
AllMatch_any(substrlist, string) ==
    \E k \in 1..Len(substrlist) : re_search(substrlist[k], string)

\* all([re.search(item, string) for item in substrlist])
AllMatch(substrlist, string) ==
    \A k \in 1..Len(substrlist) : re_search(substrlist[k], string)

\* any([re.search(item2, string) for item2 in substrnot])
AnyNot(substrnot, string) ==
    \E k \in 1..Len(substrnot) : re_search(substrnot[k], string)

\* appending to a list only what it does not already hold
AppendNew(inds, ind) ==
    IF \E k \in 1..Len(inds) : inds[k] = ind THEN inds ELSE Append(inds, ind)

\* the inner loop of substr_list over the AND-groups, for one series
RECURSIVE GroupLoop(_, _, _, _, _, _)
GroupLoop(strings, substrs, substrnot, ind, g, inds) ==
    IF g > Len(substrs) THEN inds
    ELSE GroupLoop(strings, substrs, substrnot, ind, g + 1,
                   IF AllMatch(substrs[g], strings[ind])
                      /\ ~AnyNot(substrnot, strings[ind])
                   THEN AppendNew(inds, ind)
                   ELSE inds)

\* the outer loop of substr_list over the series descriptions
RECURSIVE StringLoop(_, _, _, _, _)
StringLoop(strings, substrs, substrnot, ind, inds) ==
    IF ind > Len(strings) THEN inds
    ELSE StringLoop(strings, substrs, substrnot, ind + 1,
                    GroupLoop(strings, substrs, substrnot, ind, 1, inds))

\* substr_list(strings, substrs, substrnot): the list of matching indices
substr_list(strings, substrs, substrnot) ==
    StringLoop(strings, substrs, substrnot, 1, <<>>)

\* the characters of "repeat" and "redo"
RepeatWord == <<"r", "e", "p", "e", "a", "t">>
RedoWord == <<"r", "e", "d", "o">>

\* any(item in series[x].lower() for item in ["repeat", "redo"])
IsRedo(string) ==
    \/ Contains(RepeatWord, Lower(string))
    \/ Contains(RedoWord, Lower(string))

\* the sublist of inds whose series is a repeat/redo series, in order
RECURSIVE RedoInds(_, _)
RedoInds(inds, series) ==
    IF inds = <<>> THEN <<>>
    ELSE IF IsRedo(series[Head(inds)])
         THEN <<Head(inds)>> \o RedoInds(Tail(inds), series)
         ELSE RedoInds(Tail(inds), series)

\* mutant of RestrictRedo: the repeat/redo restriction is dropped
RestrictRedo_dropped(inds, series) == inds

\* if redo_inds: inds = redo_inds
RestrictRedo(inds, series) ==
    IF RedoInds(inds, series) # <<>> THEN RedoInds(inds, series) ELSE inds

\* hasattr(hdr, name)
hasattr(hdr, name) == name \in DOMAIN hdr

\* float(hdr.AcquisitionTime) succeeds: the value is <<"num", t>>; any other
\* value makes float() raise
FloatOk(t) == t[1] = "num"

\* mutant of KeeperStep: the acquisition times are compared without the
\* guard against values float() rejects, and ties go to the later index
KeeperStep_unguarded(hdrs, i, keeper) ==
    IF hasattr(hdrs[i], "ImagesInAcquisition")
       /\ hasattr(hdrs[keeper], "ImagesInAcquisition")
    THEN IF hdrs[i].ImagesInAcquisition > hdrs[keeper].ImagesInAcquisition
         THEN i
         ELSE IF hdrs[i].ImagesInAcquisition = hdrs[keeper].ImagesInAcquisition
                 /\ hasattr(hdrs[i], "AcquisitionTime")
                 /\ hasattr(hdrs[keeper], "AcquisitionTime")
                 /\ hdrs[i].AcquisitionTime[2] >= hdrs[keeper].AcquisitionTime[2]
              THEN i
              ELSE keeper
    ELSE keeper

\* mutant of KeeperStep: a candidate with as many images as the keeper
\* replaces it whatever the acquisition times
KeeperStep_ties(hdrs, i, keeper) ==
    IF hasattr(hdrs[i], "ImagesInAcquisition")
       /\ hasattr(hdrs[keeper], "ImagesInAcquisition")
       /\ hdrs[i].ImagesInAcquisition >= hdrs[keeper].ImagesInAcquisition
    THEN i
    ELSE keeper

\* one pass of the keeper loop body for candidate i with the running keeper
KeeperStep(hdrs, i, keeper) ==
    IF hasattr(hdrs[i], "ImagesInAcquisition")
       /\ hasattr(hdrs[keeper], "ImagesInAcquisition")
    THEN IF hdrs[i].ImagesInAcquisition > hdrs[keeper].ImagesInAcquisition
         THEN i
         ELSE IF hdrs[i].ImagesInAcquisition = hdrs[keeper].ImagesInAcquisition
                 /\ hasattr(hdrs[i], "AcquisitionTime")
                 /\ hasattr(hdrs[keeper], "AcquisitionTime")
                 /\ FloatOk(hdrs[i].AcquisitionTime)
                 /\ FloatOk(hdrs[keeper].AcquisitionTime)
                 /\ hdrs[i].AcquisitionTime[2] > hdrs[keeper].AcquisitionTime[2]
              THEN i
              ELSE keeper
    ELSE keeper

\* for n, i in enumerate(inds, 1): the first candidate is the keeper by
\* default, then every candidate (the first included) is compared with it
RECURSIVE KeeperLoop(_, _, _, _)
KeeperLoop(hdrs, inds, n, keeper) ==
    IF n > Len(inds) THEN keeper
    ELSE KeeperLoop(hdrs, inds, n + 1,
                    KeeperStep(hdrs, inds[n], IF n = 1 THEN inds[1] ELSE keeper))

\* the keeper among a non-empty candidate list
Keeper(cat, inds) ==
    IF Len(inds) = 1 THEN inds[1]
    ELSE KeeperLoop(cat.hdrs, RestrictRedo(inds, cat.series), 1, 0)

\* dict.update for one role entry: the keys of upd are set, the rest kept
Update(d, upd) ==
    [k \in DOMAIN d \cup DOMAIN upd |-> IF k \in DOMAIN upd THEN upd[k] ELSE d[k]]

\* what filter_series records for a role whose keeper is series k
Bound(cat, k) ==
    [dicoms |-> cat.dicoms[k], hdrs |-> cat.hdrs[k],
     series |-> cat.series[k], dirs |-> cat.dirs[k]]

\* what filter_series records for a role without a matching series
Unbound == [dicoms |-> <<>>, hdrs |-> <<>>, series |-> NoneStr, dirs |-> <<>>]

\* the candidate indices of one role entry
Candidates(cat, entry) == substr_list(cat.series, entry["or"], entry["not"])

\* the body of the loop of filter_series for one role entry
FilterRole(cat, entry) ==
    IF "or" \in DOMAIN entry /\ "not" \in DOMAIN entry
    THEN IF Candidates(cat, entry) # <<>>
         THEN Update(entry, Bound(cat, Keeper(cat, Candidates(cat, entry))))
         ELSE Update(entry, Unbound)
    ELSE entry

\* filter_series(dicoms, hdrs, series, dirs, srs_dict)
filter_series(cat, srs_dict) ==
    [srs \in DOMAIN srs_dict |-> FilterRole(cat, srs_dict[srs])]

\* the "Matched series" lines filter_series logs: per searched role, the
\* indices substr_list returned
MatchedLog(cat, srs_dict) ==
    [srs \in { r \in DOMAIN srs_dict :
                 "or" \in DOMAIN srs_dict[r] /\ "not" \in DOMAIN srs_dict[r] }
       |-> Candidates(cat, srs_dict[srs])]

(***************************************************************************)
(* Inputs of the matcher: catalogs and role configurations                 *)
(***************************************************************************)
\* the largest number of series in a catalog
MaxSeries == 3

SP == <<" ">>
W_T1 == <<"T", "1">>
W_T2 == <<"T", "2">>
W_POST == <<"P", "O", "S", "T">>
W_SCREEN == <<"S", "C", "R", "E", "E", "N">>
W_REPEAT == <<"R", "E", "P", "E", "A", "T">>

\* series descriptions
D_PLAIN == W_T1 \o SP \o W_POST
D_REPEAT == W_T1 \o SP \o W_POST \o SP \o W_REPEAT
D_REDO == W_T1 \o SP \o RedoWord \o SP \o W_POST
D_SCREEN == W_T1 \o SP \o W_SCREEN \o SP \o W_POST

\* a header: the image count (0: the attribute is absent) and the acquisition
\* time (<<"num", t>>, or a value float() rejects)
Hdr(images, time) ==
    IF images = 0 THEN [AcquisitionTime |-> time]
    ELSE [ImagesInAcquisition |-> images, AcquisitionTime |-> time]

\* the series a catalog is drawn from: display string and representative header
SeriesPool ==
    { [series |-> D_PLAIN,  hdrs |-> Hdr(1, <<"num", 1>>)],
      [series |-> D_PLAIN,  hdrs |-> Hdr(1, <<"num", 2>>)],
      [series |-> D_PLAIN,  hdrs |-> Hdr(2, <<"num", 1>>)],
      [series |-> D_PLAIN,  hdrs |-> Hdr(1, <<"bad", 0>>)],
      [series |-> D_PLAIN,  hdrs |-> Hdr(0, <<"num", 2>>)],
      [series |-> D_REPEAT, hdrs |-> Hdr(1, <<"num", 1>>)],
      [series |-> D_REPEAT, hdrs |-> Hdr(1, <<"bad", 0>>)],
      [series |-> D_REDO,   hdrs |-> Hdr(1, <<"num", 2>>)],
      [series |-> D_SCREEN, hdrs |-> Hdr(2, <<"num", 2>>)] }

\* the series directory and the DICOM files of the i-th series
DirOf(i) == <<"/", ToString(i)>>
DicomsOf(i) == << <<"/", ToString(i), "/", "1">> >>

\* the catalogs get_series can return: one entry per series directory
Catalogs ==
    UNION { { [dicoms |-> [i \in 1..n |-> DicomsOf(i)],
               hdrs |-> [i \in 1..n |-> e[i].hdrs],
               series |-> [i \in 1..n |-> e[i].series],
               dirs |-> [i \in 1..n |-> DirOf(i)]] :
              e \in [1..n -> SeriesPool] } :
            n \in 0..MaxSeries }

\* match criteria of role T1: the "or" list of AND-groups and the "not" list
Criteria ==
    { [or |-> << <<W_T1, W_POST>> >>, not |-> <<W_SCREEN>>],
      [or |-> << <<W_T2>>, <<W_T1, W_POST>> >>, not |-> <<>>],
      [or |-> << <<<<"^">> \o W_T1>>, <<<<"P", ".", "S", "T">>>> >>,
       not |-> <<W_REPEAT>>],
      [or |-> << <<>> >>, not |-> <<W_SCREEN, W_REPEAT>>],
      [or |-> << <<W_T2>> >>, not |-> <<>>] }

\* the "info" entry make_serdict adds to the bundle
Info == [filename |-> NoneStr, dcmdir |-> <<"dcm">>, id |-> <<"id">>]

\* the bundle make_serdict returns for a role configuration with criteria c
MatchDict(c) ==
    [srs \in {"T1", "info"} |->
        IF srs = "T1" THEN [or |-> c["or"], not |-> c["not"], reg |-> "affine"]
        ELSE Info]

(***************************************************************************)
(* Matcher specification                                                   *)
(***************************************************************************)
InitMatch ==
    /\ catalog \in Catalogs
    /\ ser_dict \in { MatchDict(c) : c \in Criteria }
    /\ matched = <<>>
    /\ fs = <<>>
    /\ repeat = FALSE
    /\ sorted_keys = <<>>
    /\ pos = <<0, 0>>
    /\ calls = <<>>
    /\ errors = {}
    /\ run = 1
    /\ snap = <<>>
    /\ batch = <<>>
    /\ param = <<>>
    /\ vol = <<>>
    /\ pc = "made_serdict"

\* series_dict = filter_series(dicoms1, hdrs1, series1, dirs1, series_dict)
FilterSeries ==
    /\ pc = "made_serdict"
    /\ ser_dict' = filter_series(catalog, ser_dict)
    /\ matched' = MatchedLog(catalog, ser_dict)
    /\ pc' = "filtered"
    /\ UNCHANGED <<catalog, fs, repeat, sorted_keys, pos, calls, errors, run, snap, batch, param, vol>>

NextMatch == FilterSeries

SpecMatch == InitMatch /\ [][NextMatch]_vars

(***************************************************************************)
(* Files.  A file name is a tuple of name parts ending in its extension;   *)
(* fs maps every file on disk to the number of times it was written since  *)
(* the start (0: it was there before).                                     *)
(***************************************************************************)
Ext == ".nii.gz"

\* <case-id>_<role>.nii.gz, the primary output of a role
Nii(role) == <<role, Ext>>

\* the registration atlas handed to make_serdict
Atlas == <<"atlas", Ext>>

\* os.path.isfile(f)
isfile(files, f) == f \in DOMAIN files

\* a tool writes file f: created, or overwritten if it was there
Write(files, f) ==
    [g \in DOMAIN files \cup {f} |->
        IF g = f THEN (IF f \in DOMAIN files THEN files[f] + 1 ELSE 1)
        ELSE files[g]]

\* os.path.basename(f).split(".nii")[0], and .split(".")[0]: the name up to
\* the extension; a name without extension ("None") is its own stem
Stem(f) == IF Len(f) > 0 /\ f[Len(f)] = Ext THEN SubSeq(f, 1, Len(f) - 1) ELSE f

\* the output name ants_apply derives from the moving image
Warped(mvng) == Stem(mvng) \o <<"_w", Ext>>

\* trnsfm = outprefix + "Composite.h5", outprefix = moving_2_template_
Composite(moving_nii, template_nii) ==
    Stem(moving_nii) \o <<"_2_">> \o Stem(template_nii) \o <<"_Composite.h5">>

(***************************************************************************)
(* Registration Orchestrator: reg_series                                   *)
(***************************************************************************)
\* python False as the value of the "reg" key
PyFalse == "<False>"

\* sorted(): the rank of the role names of the model in python string order
\* (upper case before lower case)
Rank(name) ==
    CASE name = "B0" -> 0 [] name = "DWI" -> 1 [] name = "T1" -> 2
      [] name = "T1gad" -> 3 [] name = "T2" -> 4 [] name = "info" -> 5

\* sorted(keys) as a list
RECURSIVE SortedList(_)
SortedList(keys) ==
    IF keys = {} THEN <<>>
    ELSE LET first == CHOOSE k \in keys : \A o \in keys : Rank(k) <= Rank(o)
         IN  <<first>> \o SortedList(keys \ {first})

\* the unsubstituted literal "atlas" as a registration target
AtlasLiteral == <<"atlas">>

\* lines 855-860: keys whose reg_target is still the literal "atlas" are
\* inserted at the front, the others appended
RECURSIVE AtlasFirst(_, _, _)
AtlasFirst(sd, keys, acc) ==
    IF keys = <<>> THEN acc
    ELSE AtlasFirst(sd, Tail(keys),
            IF "reg_target" \in DOMAIN sd[Head(keys)]
               /\ sd[Head(keys)].reg_target = AtlasLiteral
            THEN <<Head(keys)>> \o acc
            ELSE Append(acc, Head(keys)))

\* "reg_last" in ser_dict[key] and ser_dict[key]["reg_last"]
IsLast(sd, key) == "reg_last" \in DOMAIN sd[key] /\ sd[key].reg_last

\* lines 862-871: the keys flagged reg_last are moved to the end
LastLast(sd, keys) ==
    SelectSeq(keys, LAMBDA k : ~IsLast(sd, k))
      \o SelectSeq(keys, LAMBDA k : IsLast(sd, k))

\* the role order reg_series computes
SortedKeys(sd) == LastLast(sd, AtlasFirst(sd, SortedList(DOMAIN sd), <<>>))

\* lines 876-881 for one role entry: a missing filename becomes "None"; a role
\* without file or without registration mode gets filename_reg = filename
Unregistered(entry) ==
    LET e1 == IF "filename" \notin DOMAIN entry
              THEN Update(entry, [filename |-> NoneStr]) ELSE entry
    IN  IF e1.filename = NoneStr \/ "reg" \notin DOMAIN e1 \/ e1.reg = PyFalse
        THEN Update(e1, [filename_reg |-> e1.filename, transform |-> NoneStr,
                         reg |-> PyFalse])
        ELSE e1

\* the first loop of reg_series over all roles
RegDefaults(sd) == [ser \in DOMAIN sd |-> Unregistered(sd[ser])]

\* the mode each geometric stage tests for, in the order of the loops
StageMode == <<"trans", "rigid", "affine", "fast_affine", "diffeo", "fast_diffeo">>

\* the stage that applies another role's transform
BorrowStage == Len(StageMode) + 1

\* the stages that test os.path.isfile(movingr) and os.path.isfile(template)
\* before registering (the translation and rigid loops do not)
ChecksFiles(stage) == stage \in {3, 4, 5, 6}

\* the condition under which the loop of a stage works on role ser
InStage(sd, keys, stage, ser) ==
    IF stage = BorrowStage
    THEN \E k \in 1..Len(keys) : keys[k] = sd[ser].reg
    ELSE sd[ser].reg = StageMode[stage]

\* loop positions <<stage, index into sorted_keys>> in execution order
Later(p, q) == q[1] > p[1] \/ (q[1] = p[1] /\ q[2] > p[2])

\* the positions after p at which a loop body does work
Pending(sd, keys, p) ==
    { q \in (1..BorrowStage) \X (1..Len(keys)) :
        Later(p, q) /\ InStage(sd, keys, q[1], keys[q[2]]) }

\* the earliest of a non-empty set of positions
First(ps) == CHOOSE q \in ps : \A o \in ps : o = q \/ Later(q, o)

\* the template of a geometric role: the target itself if it is a file, else
\* the registered output of the role it names; Missing if that lookup raises
\* KeyError
Missing == <<"<KeyError>">>
Template(sd, files, ser) ==
    IF "reg_target" \notin DOMAIN sd[ser] THEN Missing
    ELSE IF isfile(files, sd[ser].reg_target) THEN sd[ser].reg_target
    ELSE IF Len(sd[ser].reg_target) = 1
            /\ sd[ser].reg_target[1] \in DOMAIN sd
            /\ "filename_reg" \in DOMAIN sd[sd[ser].reg_target[1]]
         THEN sd[sd[ser].reg_target[1]].filename_reg
         ELSE Missing

\* the image the transform is computed from
Movingr(sd, ser) ==
    IF "reg_moving" \in DOMAIN sd[ser] THEN sd[ser].reg_moving ELSE sd[ser].filename

\* the image the transform is applied to
Movinga(sd, ser) == sd[ser].filename

\* one record of the log of tool invocations
Call(tool, stage, ser, moving, fixed, transform, invert, ran, ok) ==
    [tool |-> tool, stage |-> stage, ser |-> ser, moving |-> moving,
     fixed |-> fixed, transform |-> transform, invert |-> invert,
     ran |-> ran, ok |-> ok]

\* <mode>_reg(moving, template, work_dir, option, repeat): the engine runs
\* when the composite transform is missing or repeat is set.  It cannot read
\* a missing input; otherwise the run succeeds (toolOk) or raises.
\* Result: the files afterwards, whether it raised, and its log record.
RegRun(files, rep, stage, ser, moving, template, toolOk) ==
    LET trnsfm == Composite(moving, template)
        runs == ~isfile(files, trnsfm) \/ rep
        inputs == isfile(files, moving) /\ isfile(files, template)
        ok == inputs /\ (runs => toolOk)
    IN  [fs |-> IF ok /\ runs THEN Write(files, trnsfm) ELSE files,
         ok |-> ok,
         call |-> Call("reg", stage, ser, moving, template, trnsfm, FALSE,
                       inputs /\ runs, ok)]

\* mutant of ants_apply: the transform is applied whether or not the warped
\* output is already on disk
ants_apply_always(files, stage, ser, moving, reference, transform, invert_bool, rep, toolOk) ==
    LET output == Warped(moving)
        inputs == /\ isfile(files, moving) /\ isfile(files, reference)
                  /\ isfile(files, transform)
        ok == inputs /\ toolOk
    IN  [fs |-> IF ok THEN Write(files, output) ELSE files,
         ok |-> ok,
         out |-> output,
         call |-> Call("apply", stage, ser, moving, reference, transform,
                       invert_bool, inputs, ok)]

\* ants_apply(moving_nii, reference_nii, interp, transform_list, work_dir,
\* invert_bool, repeat) for one moving image: the tool runs when the warped
\* output is missing or its own repeat parameter is set
ants_apply(files, stage, ser, moving, reference, transform, invert_bool, rep, toolOk) ==
    LET output == Warped(moving)
        runs == ~isfile(files, output) \/ rep
        inputs == /\ isfile(files, moving) /\ isfile(files, reference)
                  /\ isfile(files, transform)
        ok == inputs /\ (runs => toolOk)
    IN  [fs |-> IF ok /\ runs THEN Write(files, output) ELSE files,
         ok |-> ok,
         out |-> output,
         call |-> Call("apply", stage, ser, moving, reference, transform,
                       invert_bool, inputs /\ runs, ok)]

\* reg_series passes its repeat flag as the sixth positional argument of
\* ants_apply, which is invert_bool; ants_apply's own repeat stays False
ApplyFromReg(files, rep, stage, ser, moving, reference, transform, toolOk) ==
    ants_apply(files, stage, ser, moving, reference, transform, rep, FALSE,
               toolOk)

\* the two updates that end a role's registration
Registered(sd, ser, niiout, transforms) ==
    [sd EXCEPT ![ser] = Update(sd[ser], [filename_reg |-> niiout,
                                         transform |-> transforms])]


\* the body of the loop of a geometric stage for role ser (lines 885-910 and
\* their copies): the bundle, the files and the new log records afterwards,
\* and whether an exception left reg_series
GeoOutcome(sd, files, rep, stage, ser, regOk, applyOk) ==
    LET template == Template(sd, files, ser)
        movingr == Movingr(sd, ser)
        movinga == Movinga(sd, ser)
        r == RegRun(files, rep, stage, ser, movingr, template, regOk)
        a == ApplyFromReg(r.fs, rep, stage, ser, movinga, template,
                          r.call.transform, applyOk)
    IN  IF template = Missing
        THEN [sd |-> sd, fs |-> files, calls |-> <<>>, raised |-> TRUE]
        ELSE IF ChecksFiles(stage)
                /\ ~(isfile(files, movingr) /\ isfile(files, template))
        THEN [sd |-> sd, fs |-> files, calls |-> <<>>, raised |-> FALSE]
        ELSE IF ~r.ok
        THEN [sd |-> sd, fs |-> r.fs, calls |-> <<r.call>>, raised |-> TRUE]
        ELSE IF ~a.ok
        THEN [sd |-> sd, fs |-> a.fs, calls |-> <<r.call, a.call>>,
              raised |-> TRUE]
        ELSE [sd |-> Registered(sd, ser, a.out, r.call.transform),
              fs |-> a.fs, calls |-> <<r.call, a.call>>, raised |-> FALSE]

\* the lookups of the borrow stage succeed: the lender has a transform and a
\* registered output
CanBorrow(sd, ser) ==
    /\ "transform" \in DOMAIN sd[sd[ser].reg]
    /\ "filename_reg" \in DOMAIN sd[sd[ser].reg]

\* transforms = ser_dict[ser_dict[ser]["reg"]]["transform"]
BorrowedTransform(sd, ser) == sd[sd[ser].reg].transform

\* mutant of BorrowOutcome: the borrowing role is registered anew and the new
\* transform recorded
BorrowOutcome_recomputed(sd, files, rep, ser, applyOk) ==
    LET template == sd[sd[ser].reg].filename_reg
        moving == sd[ser].filename
        r == RegRun(files, rep, BorrowStage, ser, moving, template, TRUE)
        a == ApplyFromReg(r.fs, rep, BorrowStage, ser, moving, template,
                          r.call.transform, applyOk)
    IN  IF ~CanBorrow(sd, ser)
        THEN [sd |-> sd, fs |-> files, calls |-> <<>>, caught |-> TRUE]
        ELSE IF ~r.ok \/ ~a.ok
        THEN [sd |-> sd, fs |-> a.fs, calls |-> <<r.call, a.call>>,
              caught |-> TRUE]
        ELSE [sd |-> Registered(sd, ser, a.out, r.call.transform),
              fs |-> a.fs, calls |-> <<r.call, a.call>>, caught |-> FALSE]

\* mutant of BorrowOutcome: the registered filename is recorded before
\* ants_apply is called
BorrowOutcome_early(sd, files, rep, ser, applyOk) ==
    LET transforms == BorrowedTransform(sd, ser)
        template == sd[sd[ser].reg].filename_reg
        moving == sd[ser].filename
        a == ApplyFromReg(files, rep, BorrowStage, ser, moving, template,
                          transforms, applyOk)
        early == [sd EXCEPT ![ser] =
                     Update(sd[ser], [filename_reg |-> Warped(moving)])]
    IN  IF ~CanBorrow(sd, ser)
        THEN [sd |-> sd, fs |-> files, calls |-> <<>>, caught |-> TRUE]
        ELSE IF ~a.ok
        THEN [sd |-> early, fs |-> a.fs, calls |-> <<a.call>>, caught |-> TRUE]
        ELSE [sd |-> Registered(sd, ser, a.out, transforms),
              fs |-> a.fs, calls |-> <<a.call>>, caught |-> FALSE]

\* the try block of the borrow stage for role ser (lines 1058-1071): the
\* bundle is updated only after ants_apply returned
BorrowOutcome(sd, files, rep, ser, applyOk) ==
    LET transforms == BorrowedTransform(sd, ser)
        template == sd[sd[ser].reg].filename_reg
        moving == sd[ser].filename
        a == ApplyFromReg(files, rep, BorrowStage, ser, moving, template,
                          transforms, applyOk)
    IN  IF ~CanBorrow(sd, ser)
        THEN [sd |-> sd, fs |-> files, calls |-> <<>>, caught |-> TRUE]
        ELSE IF ~a.ok
        THEN [sd |-> sd, fs |-> a.fs, calls |-> <<a.call>>, caught |-> TRUE]
        ELSE [sd |-> Registered(sd, ser, a.out, transforms),
              fs |-> a.fs, calls |-> <<a.call>>, caught |-> FALSE]

(***************************************************************************)
(* Inputs of the registration stage                                        *)
(***************************************************************************)
\* the surrogate moving image of a role (ASL's anatomic volume)
Anat(role) == <<role, "_anat", Ext>>

\* registration settings per role, as the role configuration gives them
T1Settings ==
    { [reg |-> "affine", reg_target |-> Atlas],
      [reg |-> "trans", reg_target |-> Atlas],
      [reg |-> "diffeo", reg_target |-> Atlas],
      <<>> }

T2Settings ==
    { [reg |-> "affine", reg_target |-> <<"T1">>],
      [reg |-> "rigid", reg_target |-> <<"T1">>],
      [reg |-> "fast_affine", reg_target |-> <<"DWI">>],
      [reg |-> "translation", reg_target |-> Atlas],
      [reg |-> "T1"] }

DWISettings ==
    { [reg |-> "T1"],
      [reg |-> "T2"],
      [reg |-> "fast_diffeo", reg_target |-> <<"T2">>, reg_last |-> TRUE],
      [reg |-> "fast_affine", reg_target |-> <<"T1">>,
       reg_moving |-> Anat("DWI")],
      [reg |-> PyFalse] }

\* what the conversion stage left for a role: no filename key ("nofile"), or
\* the filename of its primary output, on disk ("ok") or not ("gone")
Converted == {"nofile", "ok", "gone"}

\* a role entry as the registration stage receives it
RegEntry(role, settings, conv) ==
    IF conv = "nofile" THEN settings
    ELSE Update(settings, [filename |-> Nii(role)])

\* the bundle the registration stage receives
RegDict(s1, s2, s3, conv) ==
    [ser \in {"T1", "T2", "DWI", "info"} |->
        CASE ser = "T1" -> RegEntry("T1", s1, conv["T1"])
          [] ser = "T2" -> RegEntry("T2", s2, conv["T2"])
          [] ser = "DWI" -> RegEntry("DWI", s3, conv["DWI"])
          [] ser = "info" -> Info]

\* the files on disk when the registration stage starts
RegFiles(conv, anat) ==
    [f \in { Nii(r) : r \in { q \in DOMAIN conv : conv[q] = "ok" } }
           \cup {Atlas} \cup (IF anat THEN {Anat("DWI")} ELSE {})
       |-> 0]

\* what an earlier run of reg_series on the case can have left on disk: the
\* warped image of each converted role, and the composite transforms of its
\* moving images to the atlas and to the other roles' images
PriorOutputs(conv, anat) ==
    LET ok == { r \in DOMAIN conv : conv[r] = "ok" }
        moving == { Nii(r) : r \in ok } \cup (IF anat THEN {Anat("DWI")} ELSE {})
        fixed == {Atlas} \cup { Nii(r) : r \in ok } \cup { Warped(Nii(r)) : r \in ok }
    IN  { Warped(Nii(r)) : r \in ok }
           \cup { Composite(m, t) : m \in moving, t \in fixed }

(***************************************************************************)
(* Registration specification                                              *)
(***************************************************************************)
InitReg ==
    /\ catalog = <<>>
    /\ matched = <<>>
    /\ \E s1 \in T1Settings, s2 \in T2Settings, s3 \in DWISettings,
          conv \in [{"T1", "T2", "DWI"} -> Converted], anat \in BOOLEAN,
          prior \in BOOLEAN :
            /\ anat => "reg_moving" \in DOMAIN s3
            /\ ser_dict = RegDict(s1, s2, s3, conv)
            /\ fs = [f \in DOMAIN RegFiles(conv, anat)
                          \cup (IF prior THEN PriorOutputs(conv, anat) ELSE {})
                       |-> 0]
    /\ repeat \in BOOLEAN
    /\ sorted_keys = <<>>
    /\ pos = <<0, 0>>
    /\ calls = <<>>
    /\ errors = {}
    /\ run = 1
    /\ snap = <<>>
    /\ batch = <<>>
    /\ param = <<>>
    /\ vol = <<>>
    /\ pc = "reg_start"

\* reg_series up to its first loop: the role order and the defaults
RegStart ==
    /\ pc = "reg_start"
    /\ sorted_keys' = SortedKeys(ser_dict)
    /\ ser_dict' = RegDefaults(ser_dict)
    /\ pos' = <<0, 0>>
    /\ pc' = "reg_loop"
    /\ UNCHANGED <<catalog, matched, fs, repeat, calls, errors, run, snap, batch, param, vol>>

\* the next loop body of a geometric stage that has work to do
RegGeometric ==
    /\ pc = "reg_loop"
    /\ Pending(ser_dict, sorted_keys, pos) # {}
    /\ LET q == First(Pending(ser_dict, sorted_keys, pos))
       IN  /\ q[1] # BorrowStage
           /\ \E regOk, applyOk \in BOOLEAN :
                LET o == GeoOutcome(ser_dict, fs, repeat, q[1],
                                    sorted_keys[q[2]], regOk, applyOk)
                IN  /\ ser_dict' = o.sd
                    /\ fs' = o.fs
                    /\ calls' = calls \o o.calls
                    /\ pc' = IF o.raised THEN "reg_raised" ELSE "reg_loop"
           /\ pos' = q
    /\ UNCHANGED <<catalog, matched, repeat, sorted_keys, errors, run, snap, batch, param, vol>>

\* the next loop body of the borrow stage
RegBorrow ==
    /\ pc = "reg_loop"
    /\ Pending(ser_dict, sorted_keys, pos) # {}
    /\ LET q == First(Pending(ser_dict, sorted_keys, pos))
       IN  /\ q[1] = BorrowStage
           /\ \E applyOk \in BOOLEAN :
                LET o == BorrowOutcome(ser_dict, fs, repeat,
                                       sorted_keys[q[2]], applyOk)
                IN  /\ ser_dict' = o.sd
                    /\ fs' = o.fs
                    /\ calls' = calls \o o.calls
                    /\ errors' = IF o.caught
                                 THEN errors \cup {sorted_keys[q[2]]}
                                 ELSE errors
           /\ pos' = q
    /\ pc' = "reg_loop"
    /\ UNCHANGED <<catalog, matched, repeat, sorted_keys, run, snap, batch, param, vol>>

\* return ser_dict
RegReturn ==
    /\ pc = "reg_loop"
    /\ Pending(ser_dict, sorted_keys, pos) = {}
    /\ pc' = "reg_returned"
    /\ UNCHANGED <<catalog, ser_dict, matched, fs, repeat, sorted_keys, pos,
                   calls, errors, run, snap, batch, param, vol>>

NextReg == RegStart \/ RegGeometric \/ RegBorrow \/ RegReturn

SpecReg == InitReg /\ [][NextReg]_vars

(***************************************************************************)
(* Conversion stage: dcm_list_2_niis and its post-processors                *)
(***************************************************************************)
\* the characters of the role part of a file name (glob compares names
\* character by character); any other name stands for itself
NameChars(name) ==
    CASE name = "T1" -> <<"T", "1">>
      [] name = "T1gad" -> <<"T", "1", "g", "a", "d">>
      [] name = "T2" -> <<"T", "2">>
      [] name = "DWI" -> <<"D", "W", "I">>
      [] name = "B0" -> <<"B", "0">>
      [] OTHER -> <<name>>

\* a starts b
IsPrefix(a, b) == Len(a) <= Len(b) /\ SubSeq(b, 1, Len(a)) = a

\* glob(outfilepath.rsplit('.nii.gz', 1)[0] + '*.nii.gz')
Glob(files, outfilepath) ==
    { f \in DOMAIN files :
        /\ f[Len(f)] = Ext
        /\ IsPrefix(NameChars(outfilepath[1]), NameChars(f[1])) }

\* os.remove of every file of a set that is on disk
Remove(files, gone) == [g \in DOMAIN files \ gone |-> files[g]]

\* os.rename(src, dst): dst gets the content of src, replacing what it held
os_rename(files, src, dst) == Write(Remove(files, {src}), dst)

\* the order in which a for loop visits the bundle: the key order of the role
\* configuration file, "info" added last by make_serdict
ParamOrder == <<"T1gad", "T1", "T2", "DWI", "B0", "info">>
Keys(sd) == SelectSeq(ParamOrder, LAMBDA k : k \in DOMAIN sd)

\* what one run of the converter does: it writes the expected name, or one
\* name of its own choice, or the expected name and a second volume, or it
\* raises
ConverterRuns == {"named", "renamed", "extra", "fails"}

\* the name the converter gives a volume it does not write under the expected
\* name
Extra(outfilepath) == Stem(outfilepath) \o <<"a", Ext>>

\* the gradient tables the converter writes next to a diffusion volume
Bvals(nii) == Stem(nii) \o <<".bval">>
Bvecs(nii) == Stem(nii) \o <<".bvec">>

\* the files after converter.run() for one role
Dcm2niix(files, series, how) ==
    LET out == Nii(series)
        vols == CASE how = "named" -> Write(files, out)
                  [] how = "renamed" -> Write(files, Extra(out))
                  [] how = "extra" -> Write(Write(files, out), Extra(out))
                  [] OTHER -> files
    IN  IF series = "DWI" /\ how # "fails"
        THEN Write(Write(vols, Bvals(out)), Bvecs(out))
        ELSE vols

\* nib.save of one volume per name of a set
RECURSIVE SaveAll(_, _)
SaveAll(files, names) ==
    IF names = {} THEN files
    ELSE LET k == CHOOSE n \in names : TRUE
         IN  SaveAll(Write(files, Nii(k)), names \ {k})

\* os.path.join(basepath, ser + '.nii.gz') with basepath = nii_in.rsplit('_',
\* 1)[1]: the text after the last underscore of the input path, used as a
\* directory
SplitCheckPath(nii_in, ser) == nii_in \o <<"/", ser, Ext>>

\* split_multiphase(nii_in, options, series, repeat): the files afterwards and
\* the names it returns
split_multiphase(files, nii_in, options, rep, is4d) ==
    IF ~rep /\ \A ser \in DOMAIN options :
                   isfile(files, SplitCheckPath(nii_in, ser))
    THEN [fs |-> files,
          outnames |-> [k \in DOMAIN options |-> SplitCheckPath(nii_in, k)]]
    ELSE IF ~is4d
    THEN [fs |-> files, outnames |-> <<>>]
    ELSE [fs |-> SaveAll(files, DOMAIN options),
          outnames |-> [k \in DOMAIN options |-> Nii(k)]]

\* the role entry split_dwi adds for the B0 volume
B0Entry ==
    [filename |-> Nii("B0"), reg |-> "fast_affine", reg_last |-> TRUE,
     reg_target |-> <<"T2FS">>, reg_option |-> [reg_com |-> 0],
     bias |-> FALSE]

\* split_dwi(ser_dict): a 4-D volume is saved over the DWI file and its B0 part
\* under the B0 name, the gradient tables are deleted.  Adding the key "B0"
\* while dcm_list_2_niis iterates over the bundle makes its for loop raise
\* RuntimeError at its next step
split_dwi(sd, files, is4d) ==
    IF "DWI" \notin DOMAIN sd \/ "filename" \notin DOMAIN sd["DWI"]
    THEN [sd |-> sd, fs |-> files, raised |-> TRUE]
    ELSE LET dwi == sd["DWI"].filename
             saved == IF is4d THEN Write(Write(files, dwi), Nii("B0"))
                      ELSE files
         IN  [sd |-> IF is4d THEN Update(sd, [B0 |-> B0Entry]) ELSE sd,
              fs |-> Remove(saved, {Bvals(dwi), Bvecs(dwi)}),
              raised |-> is4d /\ "B0" \notin DOMAIN sd]

\* lines 426-429: the filename of every returned name that is a role
SetFilenames(sd, outnames) ==
    [k \in DOMAIN sd |->
        IF k \in DOMAIN outnames
        THEN Update(sd[k], [filename |-> outnames[k]]) ELSE sd[k]]

\* lines 417-429: the post-processing of a newly converted role
PostProcess(sd, files, series, is4d) ==
    IF "split_func" \in DOMAIN sd[series]
    THEN IF sd[series].split_func = "split_dwi"
         THEN split_dwi(sd, files, is4d)
         ELSE [sd |-> sd, fs |-> files, raised |-> FALSE]
    ELSE LET s == split_multiphase(files, Nii(series), sd[series].split,
                                   FALSE, is4d)
         IN  [sd |-> SetFilenames(sd, s.outnames), fs |-> s.fs,
              raised |-> FALSE]

\* the body of the loop of dcm_list_2_niis for one role.  st holds the bundle,
\* the files, the extras list, the tool log and whether an exception left the
\* stage
ConvertRole(st, series, rep, how, is4d) ==
    LET sd == st.sd
        out == Nii(series)
        fresh == ~isfile(st.fs, out) /\ sd[series].series # NoneStr
        again == ~fresh /\ isfile(st.fs, out) /\ rep
        convert_flag == fresh \/ again
        ran == Dcm2niix(st.fs, series, how)
        named == IF how = "renamed" THEN os_rename(ran, Extra(out), out)
                 ELSE ran
        files1 == IF convert_flag THEN named ELSE st.fs
        \* line 366: list.remove() returns None, so a list result empties
        \* extras; line 379 never adds; line 403 adds the whole glob
        extras1 == IF fresh THEN (IF how = "extra" THEN {} ELSE st.extras)
                   ELSE IF again THEN st.extras \cup Glob(named, out)
                   ELSE st.extras
        calls1 == IF convert_flag
                  THEN Append(st.calls,
                              Call("dcm2niix", 0, series, out, <<>>, <<>>,
                                   FALSE, TRUE, how # "fails"))
                  ELSE st.calls
        sd1 == IF isfile(files1, out)
               THEN [sd EXCEPT ![series] = Update(@, [filename |-> out])]
               ELSE sd
        p == PostProcess(sd1, files1, series, is4d)
    IN  IF "dicoms" \notin DOMAIN sd[series] THEN st
        ELSE IF convert_flag /\ how = "fails"
        THEN [st EXCEPT !.calls = calls1, !.raised = TRUE]
        ELSE IF /\ convert_flag /\ isfile(files1, out)
                /\ DOMAIN sd[series] \cap {"split", "split_func"} # {}
        THEN [sd |-> p.sd, fs |-> p.fs, extras |-> extras1,
              calls |-> Append(calls1,
                               Call("split", 0, series, out, <<>>, <<>>,
                                    FALSE, TRUE, ~p.raised)),
              raised |-> p.raised]
        ELSE [sd |-> sd1, fs |-> files1, extras |-> extras1, calls |-> calls1,
              raised |-> FALSE]

\* the for loop over the roles, left at the first exception
RECURSIVE ConvertLoop(_, _, _, _, _)
ConvertLoop(st, keys, rep, how, is4d) ==
    IF keys = <<>> \/ st.raised THEN st
    ELSE ConvertLoop(ConvertRole(st, Head(keys), rep, how, is4d), Tail(keys),
                     rep, how, is4d)

\* lines 444-448: the anatomic volume of ASL, if on disk, becomes its moving
\* image
AslMoving(sd, files) ==
    IF /\ "ASL" \in DOMAIN sd
       /\ "filename" \in DOMAIN sd["ASL"]
       /\ isfile(files, Stem(sd["ASL"].filename) \o <<"_anat", Ext>>)
    THEN [sd EXCEPT !["ASL"] =
             Update(@, [reg_moving |-> Stem(@.filename) \o <<"_anat", Ext>>])]
    ELSE sd

\* dcm_list_2_niis(strs_dict, dicom_dir, repeat): the loop, then the removal
\* of the extras
dcm_list_2_niis(sd, files, rep, how, is4d) ==
    LET st == ConvertLoop([sd |-> sd, fs |-> files, extras |-> {},
                           calls |-> <<>>, raised |-> FALSE],
                          Keys(sd), rep, how, is4d)
    IN  IF st.raised THEN st
        ELSE [st EXCEPT !.fs = Remove(st.fs, st.extras),
                        !.sd = AslMoving(st.sd, Remove(st.fs, st.extras))]

(***************************************************************************)
(* Masking stage: breast_mask                                              *)
(***************************************************************************)
MaskFile == <<"breast_mask", Ext>>

\* the name of the masked file of a registered file: a stem that ends in _w
\* gets "m", any other stem "_wm"
Masked(filename_reg) ==
    LET stem == Stem(filename_reg)
    IN  IF Len(stem) > 0 /\ stem[Len(stem)] = "_w"
        THEN stem \o <<"m", Ext>>
        ELSE stem \o <<"_w", "m", Ext>>

\* the body of the loop of breast_mask for one role
MaskRole(st, sers, rep, toolOk) ==
    IF "filename_reg" \notin DOMAIN st.sd[sers] THEN st
    ELSE LET reg == st.sd[sers].filename_reg
             ser_masked == Masked(reg)
             named == [st.sd EXCEPT ![sers] =
                          Update(@, [filename_masked |-> ser_masked])]
             call == Call("mask", 0, sers, reg, MaskFile, <<>>, FALSE,
                          isfile(st.fs, reg), isfile(st.fs, reg) /\ toolOk)
         IN  IF rep \/ (~isfile(st.fs, ser_masked) /\ isfile(st.fs, reg))
             THEN IF isfile(st.fs, reg) /\ toolOk
                  THEN [sd |-> named, fs |-> Write(st.fs, ser_masked),
                        calls |-> Append(st.calls, call), raised |-> FALSE]
                  ELSE [st EXCEPT !.calls = Append(st.calls, call),
                                  !.raised = TRUE]
             ELSE IF isfile(st.fs, ser_masked)
             THEN [st EXCEPT !.sd = named]
             ELSE st

RECURSIVE MaskLoop(_, _, _, _)
MaskLoop(st, keys, rep, toolOk) ==
    IF keys = <<>> \/ st.raised THEN st
    ELSE MaskLoop(MaskRole(st, Head(keys), rep, toolOk), Tail(keys), rep,
                  toolOk)

\* breast_mask(ser_dict, force_cpu, repeat) with the roles visited in the
\* order keys: nothing without the registered T1; the CNN (batch_mask) runs
\* when the mask file is missing and raises when it leaves no mask; then every
\* role with a filename_reg is masked
breast_mask_order(sd, files, keys, rep, cnnOk, toolOk) ==
    LET none == [sd |-> sd, fs |-> files, calls |-> <<>>, raised |-> FALSE]
        cnn == Call("cnn", 0, "T1", Warped(Nii("T1")), <<>>, <<>>, FALSE,
                    TRUE, cnnOk)
    IN  IF ~isfile(files, Warped(Nii("T1"))) THEN none
        ELSE IF isfile(files, MaskFile)
        THEN MaskLoop(none, keys, rep, toolOk)
        ELSE IF ~cnnOk
        THEN [none EXCEPT !.calls = <<cnn>>, !.raised = TRUE]
        ELSE MaskLoop([none EXCEPT !.fs = Write(files, MaskFile),
                                   !.calls = <<cnn>>],
                      keys, rep, toolOk)

\* breast_mask as the pipeline calls it: for sers in ser_dict visits the roles
\* in the order of the bundle
breast_mask(sd, files, rep, cnnOk, toolOk) ==
    breast_mask_order(sd, files, Keys(sd), rep, cnnOk, toolOk)

(***************************************************************************)
(* Metadata serializer: print_series_dict                                   *)
(***************************************************************************)
MetaFile == <<"metadata", ".npy">>
MetaHRFile == <<"metadata", "_HR.txt">>

\* print_series_dict(series_dict, repeat): each of the two files is written
\* when it is missing or repeat is set
print_series_dict(files, rep) ==
    LET f1 == IF ~isfile(files, MetaFile) \/ rep
              THEN Write(files, MetaFile) ELSE files
    IN  IF ~isfile(f1, MetaHRFile) \/ rep THEN Write(f1, MetaHRFile) ELSE f1

(***************************************************************************)
(* Inputs of the stages                                                    *)
(***************************************************************************)
\* what filter_series left in a role entry that has a series (the match
\* criteria, which no later stage reads, are left out)
Found ==
    [dicoms |-> DicomsOf(1), hdrs |-> Hdr(1, <<"num", 1>>),
     series |-> D_PLAIN, dirs |-> DirOf(1)]

\* role entries as the role configuration and filter_series give them
T1gadEntries == {Unbound, Found}

T1Entries ==
    { Update(b, s) :
        b \in {Found, Unbound},
        s \in { [reg |-> "affine", reg_target |-> Atlas],
                [reg |-> "affine", reg_target |-> Atlas,
                 split |-> [T1gad |-> 1]] } }

T2Entries ==
    { Update(Found, [reg |-> "affine", reg_target |-> <<"T1">>]),
      Update(Found, [reg |-> "T1"]) }

DWIEntries ==
    { Update(Found, [reg |-> "T1", split_func |-> "split_dwi"]),
      Update(Found, [reg |-> "fast_affine", reg_target |-> <<"T1">>]) }

\* the bundle the conversion stage receives
StageDict(hasGad, gad, t1, t2, hasDwi, dwi) ==
    [ser \in {"T1", "T2", "info"}
             \cup (IF hasGad THEN {"T1gad"} ELSE {})
             \cup (IF hasDwi THEN {"DWI"} ELSE {}) |->
        CASE ser = "T1gad" -> gad
          [] ser = "T1" -> t1
          [] ser = "T2" -> t2
          [] ser = "DWI" -> dwi
          [] ser = "info" -> Info]

\* the volumes in the case directory before the first stage runs
Leftovers ==
    { {}, {Nii("T1gad")}, {Nii("B0")}, {Nii("T1"), Nii("T2"), Nii("DWI")} }

StageFiles(left) == [f \in left \cup {Atlas} |-> 0]

(***************************************************************************)
(* Stage specification: the four stages in pipeline order, every stage     *)
(* called with the flag repeat; a stage that returned may be run a second   *)
(* time on the files it left                                               *)
(***************************************************************************)
InitStages ==
    /\ catalog = <<>>
    /\ matched = <<>>
    /\ \E hasGad, hasDwi \in BOOLEAN, gad \in T1gadEntries, t1 \in T1Entries,
          t2 \in T2Entries, dwi \in DWIEntries, left \in Leftovers :
            /\ ~hasGad => gad = Unbound
            /\ ~hasDwi => dwi \notin { d \in DWIEntries : d.reg = "T1" }
            /\ ser_dict = StageDict(hasGad, gad, t1, t2, hasDwi, dwi)
            /\ fs = StageFiles(left)
    /\ repeat \in BOOLEAN
    /\ sorted_keys = <<>>
    /\ pos = <<0, 0>>
    /\ calls = <<>>
    /\ errors = {}
    /\ run = 1
    /\ snap = [arg |-> ser_dict, fs |-> fs, errors |-> {}]
    /\ batch = <<>>
    /\ param = <<>>
    /\ vol = <<>>
    /\ pc = "convert"

\* series_dict = dcm_list_2_niis(series_dict, dcm_dir, rep)
Convert ==
    /\ pc = "convert"
    /\ \E how \in ConverterRuns, is4d \in BOOLEAN :
         LET st == dcm_list_2_niis(ser_dict, fs, repeat, how, is4d)
         IN  /\ ser_dict' = st.sd
             /\ fs' = st.fs
             /\ calls' = calls \o st.calls
             /\ pc' = IF st.raised THEN "convert_raised" ELSE "converted"
    /\ UNCHANGED <<catalog, matched, repeat, sorted_keys, pos, errors, run,
                   snap, batch, param, vol>>

\* series_dict = breast_mask(series_dict)
BreastMask ==
    /\ pc = "mask"
    /\ \E cnnOk, toolOk \in BOOLEAN :
         LET st == breast_mask(ser_dict, fs, repeat, cnnOk, toolOk)
         IN  /\ ser_dict' = st.sd
             /\ fs' = st.fs
             /\ calls' = calls \o st.calls
             /\ pc' = IF st.raised THEN "mask_raised" ELSE "masked"
    /\ UNCHANGED <<catalog, matched, repeat, sorted_keys, pos, errors, run,
                   snap, batch, param, vol>>

\* series_dict = print_series_dict(series_dict)
PrintSeriesDict ==
    /\ pc = "print"
    /\ fs' = print_series_dict(fs, repeat)
    /\ pc' = "printed"
    /\ UNCHANGED <<catalog, ser_dict, matched, repeat, sorted_keys, pos,
                   calls, errors, run, snap, batch, param, vol>>

\* where a stage starts and where it is when it has returned
StageStart(at) ==
    CASE at = "converted" -> "convert" [] at = "reg_returned" -> "reg_start"
      [] at = "masked" -> "mask" [] at = "printed" -> "print"

StageAfter(at) ==
    CASE at = "converted" -> "reg_start" [] at = "reg_returned" -> "mask"
      [] at = "masked" -> "print"

\* the driver passes the bundle a stage returned to the next stage
NextStage ==
    /\ run = 1
    /\ pc \in {"converted", "reg_returned", "masked"}
    /\ pc' = StageAfter(pc)
    /\ snap' = [arg |-> ser_dict, fs |-> fs, errors |-> {}]
    /\ errors' = {}
    /\ UNCHANGED <<catalog, ser_dict, matched, fs, repeat, sorted_keys, pos,
                   calls, run, batch, param, vol>>

\* the stage that just returned is run a second time with the same flag, on
\* the files it left, with the bundle it received or the bundle it returned
Again ==
    /\ run = 1
    /\ pc \in {"converted", "reg_returned", "masked", "printed"}
    /\ run' = 2
    /\ \E b \in {snap.arg, ser_dict} : ser_dict' = b
    /\ snap' = [snap EXCEPT !.fs = fs, !.errors = errors]
    /\ calls' = <<>>
    /\ errors' = {}
    /\ pc' = StageStart(pc)
    /\ UNCHANGED <<catalog, matched, fs, repeat, sorted_keys, pos, batch, param, vol>>

NextStages ==
    \/ Convert \/ RegStart \/ RegGeometric \/ RegBorrow \/ RegReturn
    \/ BreastMask \/ PrintSeriesDict \/ NextStage \/ Again

SpecStages == InitStages /\ [][NextStages]_vars

(***************************************************************************)
(* Batch driver: the loop of mammo_prep over the case directories          *)
(***************************************************************************)
\* the largest number of case directories in a batch
MaxCases == 3

\* s = 5: the seconds the driver waits after a failed case
CooldownSeconds == 5

\* the batches: per case directory, whether proc_mammo_dcm_dir raises an
\* Exception for it
Batches == UNION { [1..n -> BOOLEAN] : n \in 0..MaxCases }

\* mutant of AfterCase: an exception of a case leaves the loop
AfterCase_uncaught(raised) == IF raised THEN "batch_raised" ELSE "loop"

\* where the driver goes after the try block of one case: to the except
\* handler if the case raised, else to the next step of the for loop
AfterCase(raised) == IF raised THEN "except" ELSE "loop"

InitDriver ==
    /\ catalog = <<>>
    /\ ser_dict = <<>>
    /\ matched = <<>>
    /\ fs = <<>>
    /\ repeat \in BOOLEAN
    /\ sorted_keys = <<>>
    /\ pos = <<0, 0>>
    /\ calls = <<>>
    /\ errors = {}
    /\ run = 1
    /\ snap = <<>>
    /\ \E d \in Batches :
         batch = [dcms |-> d, i |-> 0, attempted |-> <<>>, s |-> 0]
    /\ param = <<>>
    /\ vol = <<>>
    /\ pc = "loop"

\* for i, dcm in enumerate(dcms, 1): the next case, or the end of the list
ForStep ==
    /\ pc = "loop"
    /\ IF batch.i < Len(batch.dcms)
       THEN /\ batch' = [batch EXCEPT !.i = @ + 1]
            /\ pc' = "try"
       ELSE /\ batch' = batch
            /\ pc' = "batch_done"
    /\ UNCHANGED <<catalog, ser_dict, matched, fs, repeat, sorted_keys, pos,
                   calls, errors, run, snap, param, vol>>

\* the try block: proc_mammo_dcm_dir(dcm, ...) returns or raises
ProcCase ==
    /\ pc = "try"
    /\ batch' = [batch EXCEPT !.attempted = Append(@, batch.i),
                              !.s = IF batch.dcms[batch.i]
                                    THEN CooldownSeconds ELSE @]
    /\ pc' = AfterCase(batch.dcms[batch.i])
    /\ UNCHANGED <<catalog, ser_dict, matched, fs, repeat, sorted_keys, pos,
                   calls, errors, run, snap, param, vol>>

\* the except handler: while s > 0: time.sleep(1); s = s - 1
Cooldown ==
    /\ pc = "except"
    /\ IF batch.s > 0
       THEN /\ batch' = [batch EXCEPT !.s = @ - 1]
            /\ pc' = "except"
       ELSE /\ batch' = batch
            /\ pc' = "loop"
    /\ UNCHANGED <<catalog, ser_dict, matched, fs, repeat, sorted_keys, pos,
                   calls, errors, run, snap, param, vol>>

NextDriver == ForStep \/ ProcCase \/ Cooldown

\* the driver is one sequential process: a step that can be taken is taken
SpecDriver == InitDriver /\ [][NextDriver]_vars /\ WF_vars(NextDriver)

(***************************************************************************)
(* One case up to the matcher: make_log, get_series, make_serdict,         *)
(* filter_series as proc_mammo_dcm_dir calls them                          *)
(***************************************************************************)
LogFile == <<"log", ".txt">>
SeriesListFile == <<"series_list", ".txt">>

\* make_log(work_dir, repeat): the log file is created, truncated or appended
\* to, and the first log line is written to it
make_log(files, rep) == Write(files, LogFile)

\* the side effect of get_series(dicom_dir, repeat): the manifest is written
\* when it is missing or repeat is set
get_series(files, rep) ==
    IF ~isfile(files, SeriesListFile) \/ rep
    THEN Write(files, SeriesListFile) ELSE files

\* the role-configuration file: absent, not valid JSON, or holding the
\* criteria of role T1
ParamFiles ==
    { [state |-> st, criteria |-> c] :
        st \in {"ok", "missing", "malformed"}, c \in Criteria }

\* the catalogs of the cases of this specification
CaseCatalogs == { c \in Catalogs : Len(c.series) <= 1 }

InitCase ==
    /\ catalog \in CaseCatalogs
    /\ ser_dict = <<>>
    /\ matched = <<>>
    /\ fs \in { <<>>, [f \in {SeriesListFile, LogFile} |-> 0] }
    /\ repeat \in BOOLEAN
    /\ sorted_keys = <<>>
    /\ pos = <<0, 0>>
    /\ calls = <<>>
    /\ errors = {}
    /\ run = 1
    /\ snap = <<>>
    /\ batch = <<>>
    /\ param \in ParamFiles
    /\ vol = <<>>
    /\ pc = "case_start"

\* make_log(os.path.dirname(dcm_dir), rep)
MakeLog ==
    /\ pc = "case_start"
    /\ fs' = make_log(fs, repeat)
    /\ pc' = "logged"
    /\ UNCHANGED <<catalog, ser_dict, matched, repeat, sorted_keys, pos,
                   calls, errors, run, snap, batch, param, vol>>

\* dicoms1, hdrs1, series1, dirs1 = get_series(dcm_dir): the driver does not
\* pass its flag, repeat keeps its default False
GetSeries ==
    /\ pc = "logged"
    /\ fs' = get_series(fs, FALSE)
    /\ pc' = "got_series"
    /\ UNCHANGED <<catalog, ser_dict, matched, repeat, sorted_keys, pos,
                   calls, errors, run, snap, batch, param, vol>>

\* series_dict = make_serdict(reg_atlas, dcm_dir, param_file): the assert
\* fails for a missing file, json.loads raises for a malformed one
MakeSerdict ==
    /\ pc = "got_series"
    /\ IF param.state = "ok"
       THEN /\ ser_dict' = MatchDict(param.criteria)
            /\ pc' = "made_serdict"
       ELSE /\ ser_dict' = ser_dict
            /\ pc' = "case_raised"
    /\ UNCHANGED <<catalog, matched, fs, repeat, sorted_keys, pos, calls,
                   errors, run, snap, batch, param, vol>>

NextCase == MakeLog \/ GetSeries \/ MakeSerdict \/ FilterSeries

SpecCase == InitCase /\ [][NextCase]_vars

(***************************************************************************)
(* Masking specification: breast_mask on a registered bundle with the mask *)
(* file on disk, the roles visited in any order                            *)
(***************************************************************************)
\* a role entry as reg_series leaves it: registered, left unregistered, or
\* skipped without filename_reg
MaskEntries(role) ==
    { [filename |-> Nii(role), filename_reg |-> Warped(Nii(role)),
       transform |-> Composite(Nii(role), Atlas), reg |-> "affine"],
      [filename |-> Nii(role), filename_reg |-> Nii(role),
       transform |-> NoneStr, reg |-> PyFalse],
      [filename |-> Nii(role), reg |-> "affine"] }

\* the info entry after reg_series
InfoReg == Update(Info, [filename_reg |-> NoneStr, transform |-> NoneStr,
                         reg |-> PyFalse])

\* the bundle the masking stage receives
MaskDict(t1, t2, dwi) ==
    [ser \in {"T1", "T2", "DWI", "info"} |->
        CASE ser = "T1" -> t1 [] ser = "T2" -> t2 [] ser = "DWI" -> dwi
          [] ser = "info" -> InfoReg]

\* the registered and masked files a bundle can have on disk
MaskCandidates(sd) ==
    UNION { {sd[ser].filename_reg, Masked(sd[ser].filename_reg)} :
            ser \in { r \in {"T1", "T2"} : "filename_reg" \in DOMAIN sd[r] } }

\* all orders in which a loop can visit the roles of a bundle
Orders(sd) ==
    { o \in [1..Cardinality(DOMAIN sd) -> DOMAIN sd] :
        \A i, j \in DOMAIN o : i # j => o[i] # o[j] }

InitMask ==
    /\ catalog = <<>>
    /\ matched = <<>>
    /\ \E t1 \in { e \in MaskEntries("T1") : e.reg = "affine" },
          t2 \in MaskEntries("T2"),
          dwi \in { e \in MaskEntries("DWI") : e.reg = "affine" } :
         /\ ser_dict = MaskDict(t1, t2, dwi)
         /\ \E on \in SUBSET MaskCandidates(ser_dict) :
              fs = [f \in on \cup {MaskFile, Warped(Nii("DWI"))} |-> 0]
    /\ repeat \in BOOLEAN
    /\ sorted_keys \in Orders(ser_dict)
    /\ pos = <<0, 0>>
    /\ calls = <<>>
    /\ errors = {}
    /\ run = 1
    /\ snap = [arg |-> ser_dict, fs |-> fs, errors |-> {}]
    /\ batch = <<>>
    /\ param = <<>>
    /\ vol = <<>>
    /\ pc = "mask_in_order"

\* breast_mask(ser_dict, repeat=repeat), its loop visiting the roles in the
\* order sorted_keys
MaskInOrder ==
    /\ pc = "mask_in_order"
    /\ \E toolOk \in BOOLEAN :
         LET st == breast_mask_order(ser_dict, fs, sorted_keys, repeat, TRUE,
                                     toolOk)
         IN  /\ ser_dict' = st.sd
             /\ fs' = st.fs
             /\ calls' = calls \o st.calls
             /\ pc' = IF st.raised THEN "mask_raised" ELSE "masked"
    /\ UNCHANGED <<catalog, matched, repeat, sorted_keys, pos, errors, run,
                   snap, batch, param, vol>>

NextMask == MaskInOrder

SpecMask == InitMask /\ [][NextMask]_vars

(***************************************************************************)
(* The volume arithmetic of split_dwi (and of dwi2adc in make_adc.py): a    *)
(* 4-D volume is a list of 3-D volumes, each stood for by one voxel value   *)
(***************************************************************************)
\* the largest number of volumes of a diffusion series
MaxVols == 4

\* np.max(bvals)
RECURSIVE np_max(_)
np_max(a) ==
    IF Len(a) = 1 THEN a[1]
    ELSE LET m == np_max(Tail(a)) IN IF a[1] >= m THEN a[1] ELSE m

\* bvals == v: the element-wise comparison, a boolean array
EqMask(a, v) == [i \in 1..Len(a) |-> a[i] = v]

\* np.nonzero(mask)[0]: the 0-based indices of the true elements, ascending
RECURSIVE np_nonzero(_, _)
np_nonzero(mask, from) ==
    IF from > Len(mask) THEN <<>>
    ELSE (IF mask[from] THEN <<from - 1>> ELSE <<>>)
            \o np_nonzero(mask, from + 1)

\* indexing the last axis with a boolean array selects the true positions
MaskInds(mask) == np_nonzero(mask, 1)

\* b0_inds = np.nonzero(bvals == 0)[0]
B0Inds(bvals) == np_nonzero(EqMask(bvals, 0), 1)

\* mutant of DwiMaxInds: every volume with a non-zero b-value is taken
DwiMaxInds_nonzero(bvals) ==
    np_nonzero([i \in 1..Len(bvals) |-> bvals[i] # 0], 1)

\* dwi_max_inds = bvals == np.max(bvals), used as index of the last axis
DwiMaxInds(bvals) == MaskInds(EqMask(bvals, np_max(bvals)))

\* np.mean(img[:, :, :, inds], -1) as the pair <<sum, count>>; count 0 is nan
RECURSIVE np_mean(_, _)
np_mean(img, inds) ==
    IF inds = <<>> THEN <<0, 0>>
    ELSE LET r == np_mean(img, Tail(inds))
         IN  <<img[Head(inds) + 1] + r[1], r[2] + 1>>

\* int(np.argmax(np.mean(img, (0, 1, 2)))): the first volume of greatest mean
ArgMax(img) ==
    CHOOSE i \in 0..(Len(img) - 1) :
        /\ \A j \in 0..(Len(img) - 1) : img[j + 1] <= img[i + 1]
        /\ \A j \in 0..(i - 1) : img[j + 1] < img[i + 1]

\* lines 1128-1151: the B0 and DWI volumes of a 4-D series, split by the
\* b-values file if there is one, else by intensity among four volumes
SplitVolumes(img, has_bvals, bvals) ==
    IF has_bvals
    THEN [b0_inds |-> B0Inds(bvals), dwi_inds |-> DwiMaxInds(bvals),
          b0_img |-> np_mean(img, B0Inds(bvals)),
          dwi_img |-> np_mean(img, DwiMaxInds(bvals)), raised |-> FALSE]
    ELSE LET max_ind == ArgMax(img)
             nonbo_inds == SelectSeq(<<0, 1, 2, 3>>, LAMBDA k : k # max_ind)
             bad == max_ind > 3 \/ nonbo_inds[1] >= Len(img)
         IN  [b0_inds |-> <<max_ind>>,
              dwi_inds |-> IF bad THEN <<>> ELSE <<nonbo_inds[1]>>,
              b0_img |-> <<img[max_ind + 1], 1>>,
              dwi_img |-> IF bad THEN <<0, 0>>
                          ELSE <<img[nonbo_inds[1] + 1], 1>>,
              raised |-> bad]

\* the b-values the converter writes and the voxel values of the volumes
BvalPool == {0, 500, 1000}
VoxelPool == {1, 2}

InitDwi ==
    /\ catalog = <<>>
    /\ ser_dict = <<>>
    /\ matched = <<>>
    /\ fs = <<>>
    /\ repeat = FALSE
    /\ sorted_keys = <<>>
    /\ pos = <<0, 0>>
    /\ calls = <<>>
    /\ errors = {}
    /\ run = 1
    /\ snap = <<>>
    /\ batch = <<>>
    /\ param = <<>>
    /\ \E n \in 1..MaxVols, has \in BOOLEAN :
         \E b \in [1..n -> BvalPool], im \in [1..n -> VoxelPool] :
            /\ ~has => \A i \in 1..n : b[i] = 0
            /\ vol = [img |-> im, has_bvals |-> has, bvals |-> b,
                      split |-> <<>>]
    /\ pc = "dwi_4d"

\* the 4-D branch of split_dwi up to the two saved volumes
SplitDwi ==
    /\ pc = "dwi_4d"
    /\ vol' = [vol EXCEPT
                 !.split = SplitVolumes(vol.img, vol.has_bvals, vol.bvals)]
    /\ pc' = IF vol'.split.raised THEN "dwi_raised" ELSE "dwi_split"
    /\ UNCHANGED <<catalog, ser_dict, matched, fs, repeat, sorted_keys, pos,
                   calls, errors, run, snap, batch, param>>

NextDwi == SplitDwi

SpecDwi == InitDwi /\ [][NextDwi]_vars

(***************************************************************************)
(* One case: proc_mammo_dcm_dir(dcm_dir, param_file, reg_atlas, rep), with   *)
(* the flag each stage is called with                                      *)
(***************************************************************************)
\* the loops of the stages of reg_series from position p on, left at the
\* first exception that is not caught
RECURSIVE RegLoop(_, _, _, _, _, _)
RegLoop(st, keys, p, rep, regOk, applyOk) ==
    IF st.raised \/ Pending(st.sd, keys, p) = {} THEN st
    ELSE LET q == First(Pending(st.sd, keys, p))
             ser == keys[q[2]]
             g == GeoOutcome(st.sd, st.fs, rep, q[1], ser, regOk, applyOk)
             b == BorrowOutcome(st.sd, st.fs, rep, ser, applyOk)
         IN  IF q[1] = BorrowStage
             THEN RegLoop([sd |-> b.sd, fs |-> b.fs,
                           calls |-> st.calls \o b.calls, raised |-> FALSE],
                          keys, q, rep, regOk, applyOk)
             ELSE RegLoop([sd |-> g.sd, fs |-> g.fs,
                           calls |-> st.calls \o g.calls,
                           raised |-> g.raised],
                          keys, q, rep, regOk, applyOk)

\* reg_series(ser_dict, repeat) from call to return
reg_series(sd, files, rep, regOk, applyOk) ==
    RegLoop([sd |-> RegDefaults(sd), fs |-> files, calls |-> <<>>,
             raised |-> FALSE],
            SortedKeys(sd), <<0, 0>>, rep, regOk, applyOk)

\* the bundle of the case after make_serdict and filter_series
ProcDicts ==
    { StageDict(FALSE, Unbound, t1, t2, FALSE, Unbound) :
        t1 \in { e \in T1Entries : e.series # NoneStr }, t2 \in T2Entries }

\* what an earlier run of the case left in the case directory
ProcLeft ==
    {LogFile, SeriesListFile, Nii("T1"), Nii("T2"), MaskFile,
     Masked(Warped(Nii("T1"))), Masked(Warped(Nii("T2"))),
     MetaFile, MetaHRFile}
       \cup PriorOutputs([r \in {"T1", "T2"} |-> "ok"], FALSE)

InitProc ==
    /\ catalog = <<>>
    /\ matched = <<>>
    /\ ser_dict \in ProcDicts
    /\ \E left \in {{}, ProcLeft} : fs = StageFiles(left)
    /\ repeat \in BOOLEAN
    /\ sorted_keys = <<>>
    /\ pos = <<0, 0>>
    /\ calls = <<>>
    /\ errors = {}
    /\ run = 1
    /\ snap = [arg |-> ser_dict, fs |-> fs, errors |-> {}]
    /\ batch = <<>>
    /\ param = <<>>
    /\ vol = <<>>
    /\ pc = "proc_start"

\* make_log(os.path.dirname(dcm_dir), rep)
ProcLog ==
    /\ pc = "proc_start"
    /\ fs' = make_log(fs, repeat)
    /\ pc' = "proc_logged"
    /\ UNCHANGED <<catalog, ser_dict, matched, repeat, sorted_keys, pos,
                   calls, errors, run, snap, batch, param, vol>>

\* get_series(dcm_dir), make_serdict(...) and filter_series(...): the
\* manifest is written with repeat at its default False; ser_dict holds the
\* bundle filter_series returns
ProcCatalog ==
    /\ pc = "proc_logged"
    /\ fs' = get_series(fs, FALSE)
    /\ pc' = "convert"
    /\ UNCHANGED <<catalog, ser_dict, matched, repeat, sorted_keys, pos,
                   calls, errors, run, snap, batch, param, vol>>

\* series_dict = reg_series(series_dict): repeat at its default False
ProcRegister ==
    /\ pc = "converted"
    /\ \E regOk, applyOk \in BOOLEAN :
         LET st == reg_series(ser_dict, fs, FALSE, regOk, applyOk)
         IN  /\ ser_dict' = st.sd
             /\ fs' = st.fs
             /\ calls' = calls \o st.calls
             /\ pc' = IF st.raised THEN "reg_raised" ELSE "proc_registered"
    /\ UNCHANGED <<catalog, matched, repeat, sorted_keys, pos, errors, run,
                   snap, batch, param, vol>>

\* series_dict = breast_mask(series_dict, force_cpu=False): repeat at its
\* default False
ProcMask ==
    /\ pc = "proc_registered"
    /\ \E cnnOk, toolOk \in BOOLEAN :
         LET st == breast_mask(ser_dict, fs, FALSE, cnnOk, toolOk)
         IN  /\ ser_dict' = st.sd
             /\ fs' = st.fs
             /\ calls' = calls \o st.calls
             /\ pc' = IF st.raised THEN "mask_raised" ELSE "proc_masked"
    /\ UNCHANGED <<catalog, matched, repeat, sorted_keys, pos, errors, run,
                   snap, batch, param, vol>>

\* series_dict = print_series_dict(series_dict): repeat at its default False
ProcPrint ==
    /\ pc = "proc_masked"
    /\ fs' = print_series_dict(fs, FALSE)
    /\ pc' = "proc_returned"
    /\ UNCHANGED <<catalog, ser_dict, matched, repeat, sorted_keys, pos,
                   calls, errors, run, snap, batch, param, vol>>

NextProc ==
    ProcLog \/ ProcCatalog \/ Convert \/ ProcRegister \/ ProcMask \/ ProcPrint

SpecProc == InitProc /\ [][NextProc]_vars

(***************************************************************************)
(* Series Catalog Builder: dcm_find and get_series.  Paths are strings of   *)
(* characters below the DICOM directory                                    *)
(***************************************************************************)
\* ord(c) for the characters of the paths of the model
Ord(c) ==
    CASE c = "/" -> 47 [] c = "0" -> 48 [] c = "1" -> 49 [] c = "2" -> 50
      [] c = "a" -> 97 [] c = "b" -> 98 [] c = "s" -> 115

\* a < b for python strings
StrLess(a, b) ==
    \E i \in 1..(Len(b)) :
        /\ i <= Len(a) + 1
        /\ \A j \in 1..(i - 1) : a[j] = b[j]
        /\ i = Len(a) + 1 \/ Ord(a[i]) < Ord(b[i])

\* sorted(list(set(strings)))
RECURSIVE SortedStrs(_)
SortedStrs(strs) ==
    IF strs = {} THEN <<>>
    ELSE LET m == CHOOSE x \in strs : \A y \in strs : y = x \/ StrLess(x, y)
         IN  <<m>> \o SortedStrs(strs \ {m})

\* os.path.dirname(path)
DirName(path) ==
    LET last == CHOOSE i \in 1..Len(path) :
                    path[i] = "/" /\ \A j \in (i + 1)..Len(path) : path[j] # "/"
    IN  SubSeq(path, 1, last - 1)

\* direc[-5:]
Last5(str) == IF Len(str) <= 5 THEN str ELSE SubSeq(str, Len(str) - 4, Len(str))

\* the DICOM files of the tree: two series directories of which one name
\* starts the other, a third one, and a directory inside a series directory
F_1a == <<"/", "1", "/", "a">>
F_1b == <<"/", "1", "/", "b">>
F_1sa == <<"/", "1", "/", "s", "/", "a">>
F_10a == <<"/", "1", "0", "/", "a">>
F_2a == <<"/", "2", "/", "a">>

\* os.walk below the top-level directories: a directory's files, then its
\* subdirectories
WalkTop(top, present) ==
    SelectSeq(CASE top = 1 -> <<F_1a, F_1b, F_1sa>>
                [] top = 2 -> <<F_10a>>
                [] top = 3 -> <<F_2a>>,
              LAMBDA f : f \in present)

\* dcm_find(parent_dir): the files in the order os.walk lists them; the order
\* of sibling directories is the file system's
dcm_find(present, order) ==
    WalkTop(order[1], present) \o WalkTop(order[2], present)
        \o WalkTop(order[3], present)

\* the orders in which os.walk can list the three top-level directories
WalkOrders == { o \in [1..3 -> 1..3] : \A i, j \in 1..3 : i # j => o[i] # o[j] }

\* the header of the files of a series directory
W_Gd == <<"G", "d">>
HeaderPool ==
    { [Modality |-> "MR"],
      [Modality |-> "MR", SeriesDescription |-> <<>>],
      [Modality |-> "MR", SeriesDescription |-> W_T1],
      [Modality |-> "MR", SeriesDescription |-> W_T2,
       ContrastBolusAgent |-> W_Gd] }

\* str(agent).lower().replace(' ', '')
Squeeze(str) == SelectSeq(Lower(str), LAMBDA c : c # " ")

\* lines 153-162: the text added after the description
ConStr(hdr) ==
    LET con == IF /\ hasattr(hdr, "ContrastBolusAgent")
                  /\ Squeeze(hdr.ContrastBolusAgent)
                        \notin {<<>>, <<"n", "o">>, <<"n", "o", "n", "e">>,
                                <<"o", "f", "f">>}
               THEN <<" ", "p", "o", "s", "t", "c", "o", "n", " ">>
               ELSE <<" ">>
    IN  IF hasattr(hdr, "ImageType") /\ "REFORMATTED" \in hdr.ImageType
        THEN con \o <<"r", "e", "f", " ">> ELSE con

\* the display string of a series
Display(desc, hdr, direc) ==
    desc \o ConStr(hdr) \o <<"[", "d", "i", "r", "=">> \o Last5(direc) \o <<"]">>

\* lines 163-169: what the loop appends to series for one header
SeriesAppend(series, hdr, direc) ==
    IF hasattr(hdr, "SeriesDescription")
    THEN IF hdr.SeriesDescription # <<>>
         THEN Append(series, Display(hdr.SeriesDescription, hdr, direc))
         ELSE series
    ELSE Append(series, Display(<<"n", "o", "n", "e">>, hdr, direc))

RECURSIVE SeriesLoop(_, _, _, _)
SeriesLoop(series, hdrs, dirs, ind) ==
    IF ind > Len(dirs) THEN series
    ELSE SeriesLoop(SeriesAppend(series, hdrs[ind], dirs[ind]), hdrs, dirs,
                    ind + 1)

\* the four lists get_series returns for the files dcm_list; read_file gives
\* the header of a file
get_series_lists(dcm_list, read_file) ==
    LET dirs == SortedStrs({ DirName(dcm_list[i]) : i \in 1..Len(dcm_list) })
        dicoms == [ind \in 1..Len(dirs) |->
                      SelectSeq(dcm_list, LAMBDA it : IsPrefix(dirs[ind], it))]
        hdrs == [ind \in 1..Len(dirs) |-> read_file[dicoms[ind][1]]]
    IN  [dicoms |-> dicoms, hdrs |-> hdrs,
         series |-> SeriesLoop(<<>>, hdrs, dirs, 1), dirs |-> dirs]

\* the trees of the model: the files present, the walk order and the header
\* of each series directory
Trees ==
    { [dcm_list |-> dcm_find(present, order),
       hdr |-> [f \in present |-> h[DirName(f)]]] :
        present \in (SUBSET {F_1a, F_1b, F_1sa, F_10a, F_2a}) \ {{}},
        order \in WalkOrders,
        h \in [{ DirName(f) : f \in {F_1a, F_1b, F_1sa, F_10a, F_2a} }
                 -> HeaderPool] }

InitCatalog ==
    /\ catalog = <<>>
    /\ ser_dict = <<>>
    /\ matched = <<>>
    /\ fs = <<>>
    /\ repeat \in BOOLEAN
    /\ sorted_keys = <<>>
    /\ pos = <<0, 0>>
    /\ calls = <<>>
    /\ errors = {}
    /\ run = 1
    /\ snap \in Trees
    /\ batch = <<>>
    /\ param = <<>>
    /\ vol = <<>>
    /\ pc = "walked"

\* get_series(dicom_dir, repeat): the four lists and the manifest
CatalogSeries ==
    /\ pc = "walked"
    /\ catalog' = get_series_lists(snap.dcm_list, snap.hdr)
    /\ fs' = get_series(fs, repeat)
    /\ pc' = "cataloged"
    /\ UNCHANGED <<ser_dict, matched, repeat, sorted_keys, pos, calls, errors,
                   run, snap, batch, param, vol>>

NextCatalog == CatalogSeries

SpecCatalog == InitCatalog /\ [][NextCatalog]_vars

(***************************************************************************)
(* Bias correction and normalisation: bias_correct and norm_niis           *)
(***************************************************************************)
\* the largest number of in-mask voxels
MaxVoxels == 1200

\* int(np.round(num / 1000 * n)): rounding to the nearest integer, a tie to
\* the even one
RoundedIndex(num, n) ==
    LET q == (num * n) \div 1000
        r == (num * n) % 1000
    IN  IF r < 500 THEN q
        ELSE IF r > 500 THEN q + 1
        ELSE IF q % 2 = 0 THEN q ELSE q + 1

\* lines 1562, 1569-1571: thresh = [0.001, 0.999] and the two positions in
\* the sorted in-mask values; vals[k] raises IndexError for k >= len(vals)
Thresholds(n) ==
    LET lo == RoundedIndex(1, n)
        hi == RoundedIndex(999, n)
    IN  [n |-> n, lo |-> lo, hi |-> hi, raised |-> lo > n - 1 \/ hi > n - 1]

\* line 1551: idno + "_" + srs + "_wm.nii.gz", the same string as the masked
\* name of <id>_<srs>_w.nii.gz
BiasInput(srs) == <<srs, "_w", "m", Ext>>

\* line 1552: the mask bias_correct reads
CombinedMask == <<"combined_brain_mask", Ext>>

\* lines 1559-1561
BiasMap(f) == Stem(f) \o <<"_biasmap", Ext>>
Truncated(f) == Stem(f) \o <<"t", Ext>>
BiasImg(f) == Stem(Truncated(f)) \o <<"b", Ext>>

\* line 1622
NormName(fn) == Stem(fn) \o <<"n", Ext>>

\* the role is flagged for bias correction
Flagged(sd, srs) == "bias" \in DOMAIN sd[srs] /\ sd[srs].bias

\* the body of the loop of bias_correct for one role; n is the number of
\* in-mask voxels
BiasRole(st, srs, rep, n, toolOk) ==
    LET f == BiasInput(srs)
        truncates == ~isfile(st.fs, Truncated(f)) \/ rep
        fs1 == IF truncates THEN Write(st.fs, Truncated(f)) ELSE st.fs
        corrects == ~isfile(fs1, BiasImg(f)) \/ rep
        fs2 == IF corrects THEN Write(Write(fs1, BiasImg(f)), BiasMap(f))
               ELSE fs1
        call == Call("n4", 0, srs, Truncated(f), CombinedMask, <<>>, FALSE,
                     corrects, corrects => toolOk)
    IN  IF ~Flagged(st.sd, srs) THEN st
        ELSE IF ~isfile(st.fs, f) \/ ~isfile(st.fs, CombinedMask)
        THEN [st EXCEPT !.skipped = @ \cup {srs}]
        ELSE IF truncates /\ Thresholds(n).raised
        THEN [st EXCEPT !.raised = TRUE]
        ELSE IF corrects /\ ~toolOk
        THEN [st EXCEPT !.fs = fs1, !.calls = Append(@, call), !.raised = TRUE]
        ELSE [st EXCEPT !.fs = fs2, !.calls = Append(@, call),
                        !.sd = [@ EXCEPT ![srs] =
                                   Update(@, [filename_bias |-> BiasImg(f)])]]

RECURSIVE BiasLoop(_, _, _, _, _)
BiasLoop(st, keys, rep, n, toolOk) ==
    IF keys = <<>> \/ st.raised THEN st
    ELSE BiasLoop(BiasRole(st, Head(keys), rep, n, toolOk), Tail(keys), rep,
                  n, toolOk)

\* bias_correct(ser_dict, repeat)
bias_correct(sd, files, rep, n, toolOk) ==
    BiasLoop([sd |-> sd, fs |-> files, calls |-> <<>>, skipped |-> {},
              raised |-> FALSE],
             Keys(sd), rep, n, toolOk)

\* the body of the loop of norm_niis for one role: reading filename_bias
\* raises KeyError when bias_correct recorded none
NormRole(st, srs, rep) ==
    IF ~Flagged(st.sd, srs) THEN st
    ELSE IF "filename_bias" \notin DOMAIN st.sd[srs]
    THEN [st EXCEPT !.raised = TRUE]
    ELSE LET fn == st.sd[srs].filename_bias
             recorded == [st.sd EXCEPT ![srs] =
                             Update(@, [filename_norm |-> NormName(fn)])]
         IN  IF ~isfile(st.fs, NormName(fn)) \/ rep
             THEN IF isfile(st.fs, fn)
                  THEN [st EXCEPT !.fs = Write(@, NormName(fn)),
                                  !.sd = recorded]
                  ELSE [st EXCEPT !.raised = TRUE]
             ELSE [st EXCEPT !.sd = recorded]

RECURSIVE NormLoop(_, _, _)
NormLoop(st, keys, rep) ==
    IF keys = <<>> \/ st.raised THEN st
    ELSE NormLoop(NormRole(st, Head(keys), rep), Tail(keys), rep)

\* norm_niis(ser_dict, repeat)
norm_niis(sd, files, rep) ==
    NormLoop([sd |-> sd, fs |-> files, raised |-> FALSE], Keys(sd), rep)

\* the bundle reg_series returns for roles T1 and T2, each flagged for bias
\* correction or not
BiasDict(b1, b2) ==
    [ser \in {"T1", "T2", "info"} |->
        CASE ser = "T1" -> [filename |-> Nii("T1"),
                            filename_reg |-> Warped(Nii("T1")), bias |-> b1]
          [] ser = "T2" -> [filename |-> Nii("T2"),
                            filename_reg |-> Warped(Nii("T2")), bias |-> b2]
          [] ser = "info" -> Info]

\* the numbers of in-mask voxels of the masks of the model
MaskSizes == {1, 500, 501, MaxVoxels}

InitBias ==
    /\ catalog = <<>>
    /\ matched = <<>>
    /\ \E b1, b2 \in BOOLEAN :
         \E others \in SUBSET {Warped(Nii("T2")), MaskFile, CombinedMask} :
            /\ ser_dict = BiasDict(b1, b2)
            /\ fs = [f \in {Warped(Nii("T1"))} \cup others |-> 0]
    /\ repeat \in BOOLEAN
    /\ sorted_keys = <<>>
    /\ pos = <<0, 0>>
    /\ calls = <<>>
    /\ errors = {}
    /\ run = 1
    /\ snap = <<>>
    /\ batch = <<>>
    /\ param = <<>>
    /\ vol \in { [n |-> n] : n \in MaskSizes }
    /\ pc = "mask"

\* ser_dict = bias_correct(ser_dict, repeat)
BiasCorrect ==
    /\ pc = "masked"
    /\ \E toolOk \in BOOLEAN :
         LET st == bias_correct(ser_dict, fs, repeat, vol.n, toolOk)
         IN  /\ ser_dict' = st.sd
             /\ fs' = st.fs
             /\ calls' = calls \o st.calls
             /\ errors' = st.skipped
             /\ pc' = IF st.raised THEN "bias_raised" ELSE "bias_corrected"
    /\ UNCHANGED <<catalog, matched, repeat, sorted_keys, pos, run, snap,
                   batch, param, vol>>

\* ser_dict = norm_niis(ser_dict, repeat)
NormNiis ==
    /\ pc = "bias_corrected"
    /\ LET st == norm_niis(ser_dict, fs, repeat)
       IN  /\ ser_dict' = st.sd
           /\ fs' = st.fs
           /\ pc' = IF st.raised THEN "norm_raised" ELSE "normalized"
    /\ UNCHANGED <<catalog, matched, repeat, sorted_keys, pos, calls, errors,
                   run, snap, batch, param, vol>>

NextBias == BreastMask \/ BiasCorrect \/ NormNiis

SpecBias == InitBias /\ [][NextBias]_vars

\* the threshold positions for every number of in-mask voxels
InitTrunc ==
    /\ catalog = <<>>
    /\ ser_dict = <<>>
    /\ matched = <<>>
    /\ fs = <<>>
    /\ repeat = FALSE
    /\ sorted_keys = <<>>
    /\ pos = <<0, 0>>
    /\ calls = <<>>
    /\ errors = {}
    /\ run = 1
    /\ snap = <<>>
    /\ batch = <<>>
    /\ param = <<>>
    /\ vol \in { [n |-> n] : n \in 1..MaxVoxels }
    /\ pc = "truncate"

\* lines 1569-1571 for a mask of vol.n voxels
Truncate ==
    /\ pc = "truncate"
    /\ vol' = Thresholds(vol.n)
    /\ pc' = IF vol'.raised THEN "truncate_raised" ELSE "truncated"
    /\ UNCHANGED <<catalog, ser_dict, matched, fs, repeat, sorted_keys, pos,
                   calls, errors, run, snap, batch, param>>

NextTrunc == Truncate

SpecTrunc == InitTrunc /\ [][NextTrunc]_vars

(***************************************************************************)
(* Claims about the matcher                                                *)
(***************************************************************************)
\* the criteria of role T1 and its candidate list in the current state
T1Or == ser_dict["T1"]["or"]
T1Not == ser_dict["T1"]["not"]
T1Inds == matched["T1"]

\* series i satisfies the criteria: some AND-group has every pattern
\* matching, and no NOT pattern matches
Satisfies(i) ==
    /\ \E g \in 1..Len(T1Or) :
          \A k \in 1..Len(T1Or[g]) : re_search(T1Or[g][k], catalog.series[i])
    /\ \A k \in 1..Len(T1Not) : ~re_search(T1Not[k], catalog.series[i])

\* C1: substr_list returns exactly the indices of the series that match at
\* least one AND-group in full and no NOT pattern, each once, ascending
\* (indices are 0-based in the code and 1-based here).
C1_SubstrListExact ==
    pc = "filtered"
        => /\ \A a, b \in 1..Len(T1Inds) : a < b => T1Inds[a] < T1Inds[b]
           /\ { T1Inds[a] : a \in 1..Len(T1Inds) }
                = { i \in 1..Len(catalog.series) : Satisfies(i) }

\* C1 witness: a catalog where one series matches two AND-groups, another
\* matches a group but is vetoed by a NOT pattern, and the role was evaluated
C1_Witness ==
    /\ pc = "filtered"
    /\ Len(T1Inds) >= 2
    /\ \E i \in 1..Len(catalog.series) :
          /\ \A g \in 1..Len(T1Or) : AllMatch(T1Or[g], catalog.series[i])
          /\ Len(T1Or) = 2
          /\ Satisfies(i)
    /\ \E i \in 1..Len(catalog.series) :
          /\ \E g \in 1..Len(T1Or) : AllMatch(T1Or[g], catalog.series[i])
          /\ AnyNot(T1Not, catalog.series[i])

\* the candidates of role T1 as a set, and those that are repeat/redo series
T1Cands == { T1Inds[a] : a \in 1..Len(T1Inds) }
T1Redo ==
    { i \in T1Cands :
        \/ Contains(RepeatWord, Lower(catalog.series[i]))
        \/ Contains(RedoWord, Lower(catalog.series[i])) }

\* series k is the keeper bound to role T1 (series directories are unique)
T1Keeps(k) ==
    /\ "dirs" \in DOMAIN ser_dict["T1"]
    /\ ser_dict["T1"].dirs = catalog.dirs[k]
    /\ ser_dict["T1"].series = catalog.series[k]
    /\ ser_dict["T1"].hdrs = catalog.hdrs[k]
    /\ ser_dict["T1"].dicoms = catalog.dicoms[k]

\* C2: with two or more candidates of which at least one is a repeat/redo
\* series, the keeper is a repeat/redo candidate whatever the image counts;
\* a single repeat/redo candidate is the keeper.
C2_RepeatPreferred ==
    pc = "filtered"
        => LET redo == T1Redo
           IN  (Cardinality(T1Cands) >= 2 /\ redo # {})
                   => \E k \in redo : T1Keeps(k)

\* C2 witness: a repeat series with fewer images than a plain candidate is
\* the keeper
C2_Witness ==
    /\ pc = "filtered"
    /\ Cardinality(T1Redo) = 1
    /\ Cardinality(T1Cands) >= 2
    /\ \E k \in T1Redo, i \in T1Cands \ T1Redo :
          /\ T1Keeps(k)
          /\ hasattr(catalog.hdrs[i], "ImagesInAcquisition")
          /\ hasattr(catalog.hdrs[k], "ImagesInAcquisition")
          /\ catalog.hdrs[i].ImagesInAcquisition
               > catalog.hdrs[k].ImagesInAcquisition

\* the candidate set after the repeat/redo restriction
T1Final == IF T1Redo # {} THEN T1Redo ELSE T1Cands

\* both acquisition times are present and float() accepts them
TimesParse(a, b) ==
    /\ hasattr(catalog.hdrs[a], "AcquisitionTime")
    /\ hasattr(catalog.hdrs[b], "AcquisitionTime")
    /\ catalog.hdrs[a].AcquisitionTime[1] = "num"
    /\ catalog.hdrs[b].AcquisitionTime[1] = "num"

\* both image counts are present and equal
SameImages(a, b) ==
    /\ hasattr(catalog.hdrs[a], "ImagesInAcquisition")
    /\ hasattr(catalog.hdrs[b], "ImagesInAcquisition")
    /\ catalog.hdrs[a].ImagesInAcquisition = catalog.hdrs[b].ImagesInAcquisition

\* C3: of two candidates (after the repeat/redo restriction) with equal image
\* count the one acquired strictly later is the keeper; when the times do not
\* parse the earlier-indexed one is.
C3_TieBreak ==
    (pc = "filtered" /\ Cardinality(T1Cands) >= 2)
        => LET final == T1Final
           IN \A a, b \in final :
              (a < b /\ final = {a, b} /\ SameImages(a, b))
                 => /\ (TimesParse(a, b)
                          /\ catalog.hdrs[b].AcquisitionTime[2]
                               > catalog.hdrs[a].AcquisitionTime[2])
                        => T1Keeps(b)
                    /\ (TimesParse(a, b)
                          /\ catalog.hdrs[a].AcquisitionTime[2]
                               > catalog.hdrs[b].AcquisitionTime[2])
                        => T1Keeps(a)
                    /\ ~TimesParse(a, b) => T1Keeps(a)

\* C3 witness: two candidates with equal image count, the later-indexed one
\* acquired strictly later and kept
C3_Witness ==
    /\ pc = "filtered"
    /\ Cardinality(T1Cands) >= 2
    /\ \E a, b \in T1Final :
          /\ a < b /\ T1Final = {a, b} /\ SameImages(a, b) /\ TimesParse(a, b)
          /\ catalog.hdrs[b].AcquisitionTime[2] > catalog.hdrs[a].AcquisitionTime[2]
          /\ T1Keeps(b)

\* both image counts are present
BothCounted(a, b) ==
    /\ hasattr(catalog.hdrs[a], "ImagesInAcquisition")
    /\ hasattr(catalog.hdrs[b], "ImagesInAcquisition")

\* C16: with two or more candidates, no candidate of the (repeat/redo
\* restricted) set has strictly more images than the keeper, and none with
\* the keeper's image count has a strictly later parseable acquisition time,
\* for any number and order of candidates.
C16_KeeperMaximal ==
    (pc = "filtered" /\ Cardinality(T1Cands) >= 2)
        => \E k \in T1Final :
              /\ T1Keeps(k)
              /\ \A c \in T1Final :
                    /\ BothCounted(c, k)
                         => catalog.hdrs[c].ImagesInAcquisition
                              <= catalog.hdrs[k].ImagesInAcquisition
                    /\ (SameImages(c, k) /\ TimesParse(c, k))
                         => catalog.hdrs[c].AcquisitionTime[2]
                              <= catalog.hdrs[k].AcquisitionTime[2]

\* C16 witness: three candidates, the keeper is neither the first nor the
\* last of them; one of the others has fewer images, the other as many
\* images and an earlier acquisition time
C16_Witness ==
    /\ pc = "filtered"
    /\ Cardinality(T1Final) = 3
    /\ \E a, k, b \in T1Final :
          /\ a < k /\ k < b
          /\ T1Keeps(k)
          /\ BothCounted(a, k) /\ SameImages(b, k) /\ TimesParse(b, k)
          /\ catalog.hdrs[a].ImagesInAcquisition
               < catalog.hdrs[k].ImagesInAcquisition
          /\ catalog.hdrs[b].AcquisitionTime[2]
               < catalog.hdrs[k].AcquisitionTime[2]

\* C4: once the matcher has evaluated a role that has no matching series, the
\* role's series, filename and directory fields are all present and equal to
\* "None", with empty dicoms and header.
C4_NoMatchSentinels ==
    (pc = "filtered" /\ T1Inds = <<>>)
        => /\ {"series", "filename", "dirs", "dicoms", "hdrs"}
                \subseteq DOMAIN ser_dict["T1"]
           /\ ser_dict["T1"].series = NoneStr
           /\ ser_dict["T1"].filename = NoneStr
           /\ ser_dict["T1"].dirs = NoneStr
           /\ ser_dict["T1"].dicoms = <<>>
           /\ ser_dict["T1"].hdrs = <<>>

(***************************************************************************)
(* Claims about the registration orchestrator                              *)
(***************************************************************************)
\* C5: when reg_series returns, every role entry of the bundle has a
\* filename_reg field, a geometric role whose registration was skipped for a
\* missing file included.
C5_FilenameRegAlways ==
    pc = "reg_returned"
        => \A ser \in DOMAIN ser_dict : "filename_reg" \in DOMAIN ser_dict[ser]

\* the borrow step of role b completed: its transform application returned
BorrowCompleted(b) ==
    \E i \in 1..Len(calls) :
        /\ calls[i].tool = "apply" /\ calls[i].stage = BorrowStage
        /\ calls[i].ser = b /\ calls[i].ok

\* C6: a role B whose mode names role A and whose borrow step completed
\* records exactly A's transform, and the registration engine was never
\* invoked for B or with B's image as the moving image.
C6_BorrowReusesTransform ==
    \A b \in DOMAIN ser_dict :
        BorrowCompleted(b)
            => /\ ser_dict[b].reg \in DOMAIN ser_dict
               /\ ser_dict[b].transform = ser_dict[ser_dict[b].reg].transform
               /\ \A i \in 1..Len(calls) :
                     calls[i].tool = "reg"
                        => /\ calls[i].ser # b
                           /\ calls[i].moving # ser_dict[b].filename

\* C6 witness: reg_series returned, T2 borrowed the transform the engine
\* computed for T1
C6_Witness ==
    /\ pc = "reg_returned"
    /\ BorrowCompleted("T2")
    /\ ser_dict["T2"].reg = "T1"
    /\ ser_dict["T2"].transform = Composite(Nii("T1"), Atlas)
    /\ \E i \in 1..Len(calls) :
          calls[i].tool = "reg" /\ calls[i].ser = "T1" /\ calls[i].ran

\* C7: a failing registration or transform application of one role (the tool
\* raises, or the target names a role without registered output) is caught:
\* reg_series never ends by raising.
C7_FailureIsolated == pc # "reg_raised"

\* C8: a borrow step that raises leaves every field of every role as it was
\* and the loop goes on with the next role.
C8_BorrowFailureKeepsState ==
    [][errors' # errors => (ser_dict' = ser_dict /\ pc' = "reg_loop")]_vars

\* C8 witness: applying the borrowed transform raised for DWI, the failure
\* was logged, DWI has no registered filename and reg_series returned
C8_Witness ==
    /\ pc = "reg_returned"
    /\ "DWI" \in errors
    /\ "filename_reg" \notin DOMAIN ser_dict["DWI"]
    /\ \E i \in 1..Len(calls) :
          /\ calls[i].tool = "apply" /\ calls[i].stage = BorrowStage
          /\ calls[i].ser = "DWI" /\ calls[i].ran /\ ~calls[i].ok

(***************************************************************************)
(* Claims about the stages and the files on disk                           *)
(***************************************************************************)
\* C9: with repeat = false no stage (conversion with its post-processors,
\* registration, masking, serialization) overwrites or replaces a file that
\* is already on disk.
C9_NoOverwrite ==
    [][~repeat => \A f \in DOMAIN fs \cap DOMAIN fs' : fs'[f] = fs[f]]_vars

\* C10: a stage run a second time with repeat = false on the files left by a
\* first run in which no step failed invokes no external tool and creates,
\* modifies or deletes no file: every step takes its "already exists" branch,
\* and the second run neither raises nor logs a failure.
C10_SecondRunIdle ==
    (run = 2 /\ ~repeat /\ snap.errors = {})
        => /\ fs = snap.fs
           /\ \A i \in 1..Len(calls) : ~calls[i].ran
           /\ errors = {}
           /\ pc \notin {"convert_raised", "reg_raised", "mask_raised"}

\* C10 witness: the second run of the masking stage returned, after the first
\* runs converted T1, registered it, made the mask and masked T1
C10_Witness ==
    /\ run = 2 /\ ~repeat /\ snap.errors = {} /\ pc = "masked"
    /\ isfile(fs, Nii("T1")) /\ fs[Nii("T1")] = 1
    /\ isfile(fs, Warped(Nii("T1"))) /\ fs[Warped(Nii("T1"))] = 1
    /\ isfile(fs, MaskFile) /\ fs[MaskFile] = 1
    /\ isfile(fs, Masked(Warped(Nii("T1"))))
    /\ ser_dict["T1"].filename_masked = Masked(Warped(Nii("T1")))

(***************************************************************************)
(* Claims about the batch driver                                           *)
(***************************************************************************)
\* C11: whatever cases raise, the cases attempted so far are always the
\* first cases of the list, each once and in list order, and the loop ends
\* having attempted every case.
C11_EveryCaseOnce ==
    /\ [](batch.attempted = [k \in 1..Len(batch.attempted) |-> k])
    /\ <>(pc = "batch_done" /\ Len(batch.attempted) = Len(batch.dcms))

\* C11 witness: the loop ended; the first case raised and the later cases
\* were attempted all the same
C11_Witness ==
    /\ pc = "batch_done"
    /\ Len(batch.dcms) >= 2
    /\ batch.dcms[1]
    /\ batch.attempted = [k \in 1..Len(batch.dcms) |-> k]

(***************************************************************************)
(* Claims about the start of a case                                        *)
(***************************************************************************)
\* C12: when the role-configuration file is missing or malformed the case is
\* aborted before any step had an effect: no manifest (nor any converted,
\* registered, masked or metadata file) was written.
C12_AbortBeforeEffect ==
    pc = "case_raised"
        => \A f \in DOMAIN fs \ {LogFile} : fs[f] = 0

(***************************************************************************)
(* Claims about the masking stage                                          *)
(***************************************************************************)
\* no tool that was started failed
NoToolFailure == \A i \in 1..Len(calls) : calls[i].ran => calls[i].ok

\* what breast_mask did for one role: whether its masked file is on disk, how
\* often it was written, and the filename_masked recorded
MaskOutcome(sd, files, ser) ==
    LET named == "filename_reg" \in DOMAIN sd[ser]
        m == IF named THEN Masked(sd[ser].filename_reg) ELSE NoneStr
    IN  [exists |-> named /\ isfile(files, m),
         writes |-> IF named /\ isfile(files, m) THEN files[m] ELSE 0,
         recorded |-> IF "filename_masked" \in DOMAIN sd[ser]
                      THEN sd[ser].filename_masked ELSE NoneStr]

\* breast_mask on the same bundle and files with the roles in bundle order
MaskReference ==
    breast_mask_order(snap.arg, snap.fs, Keys(snap.arg), repeat, TRUE, TRUE)

\* C13: for a fixed mask file and bundle the outcome of breast_mask for each
\* role (masked file produced, filename_masked recorded) is the same for
\* every order in which the roles are visited, with repeat false or true.
C13_MaskOrderIndependent ==
    (pc \in {"masked", "mask_raised"} /\ NoToolFailure)
        => \A ser \in DOMAIN ser_dict :
               MaskOutcome(ser_dict, fs, ser)
                   = MaskOutcome(MaskReference.sd, MaskReference.fs, ser)

\* the masked name the claim gives for a registered file
ClaimedMaskedName(reg) ==
    IF Stem(reg)[Len(Stem(reg))] = "_w" THEN Stem(reg) \o <<"m", Ext>>
    ELSE Stem(reg) \o <<"_w", "m", Ext>>

\* C14: after breast_mask with the mask file and the registered T1 on disk,
\* every role whose registered file exists has its masked file, named by the
\* two suffix rules, recorded as filename_masked; a role whose registered
\* file does not exist gets no masked file and causes no error; with
\* repeat = false an existing masked file is not written again.
C14_MaskedPerRole ==
    (/\ pc \in {"masked", "mask_raised"} /\ NoToolFailure
     /\ isfile(snap.fs, Warped(Nii("T1"))))
        => /\ pc = "masked"
           /\ \A ser \in DOMAIN snap.arg :
                "filename_reg" \in DOMAIN snap.arg[ser]
                  => LET reg == snap.arg[ser].filename_reg
                         m == ClaimedMaskedName(reg)
                     IN  /\ isfile(snap.fs, reg)
                              => /\ isfile(fs, m)
                                 /\ "filename_masked" \in DOMAIN ser_dict[ser]
                                 /\ ser_dict[ser].filename_masked = m
                         /\ ~isfile(snap.fs, reg)
                              => (isfile(fs, m) <=> isfile(snap.fs, m))
                         /\ (~repeat /\ isfile(snap.fs, m))
                              => fs[m] = snap.fs[m]

(***************************************************************************)
(* Claims about the order of registration                                  *)
(***************************************************************************)
\* the position of a role in a list of roles
IndexIn(keys, k) == CHOOSE i \in 1..Len(keys) : keys[i] = k

\* the role registers to the atlas: make_serdict put the atlas path in place
\* of the word "atlas"
AtlasTargeted(ser) ==
    "reg_target" \in DOMAIN ser_dict[ser] /\ ser_dict[ser].reg_target = Atlas

\* C17: the order reg_series computes has every role registered to the atlas
\* before every other role, every reg_last role after all others, and the
\* remaining roles in the order of the role configuration.
C17_RegOrder ==
    pc \in {"reg_loop", "reg_raised", "reg_returned"}
        => LET roles == DOMAIN ser_dict
               at(k) == IndexIn(sorted_keys, k)
               cfg(k) == IndexIn(Keys(ser_dict), k)
           IN  /\ \A a, b \in roles :
                    (AtlasTargeted(a) /\ ~IsLast(ser_dict, a)
                       /\ ~AtlasTargeted(b))
                        => at(a) < at(b)
               /\ \A l, o \in roles :
                    (IsLast(ser_dict, l) /\ ~IsLast(ser_dict, o))
                        => at(o) < at(l)
               /\ \A a, b \in roles :
                    (~AtlasTargeted(a) /\ ~AtlasTargeted(b)
                       /\ ~IsLast(ser_dict, a) /\ ~IsLast(ser_dict, b)
                       /\ cfg(a) < cfg(b))
                        => at(a) < at(b)

\* the roles the log of tool invocations names at stage st
RolesAt(st) == { calls[i].ser : i \in { j \in 1..Len(calls) : calls[j].stage = st } }

\* the files a geometric role needs are on disk
InputsPresent(ser) ==
    /\ "filename" \in DOMAIN ser_dict[ser]
    /\ isfile(fs, Movingr(ser_dict, ser))
    /\ Template(ser_dict, fs, ser) # Missing
    /\ isfile(fs, Template(ser_dict, fs, ser))

\* C18: the stages run in the order translation, rigid, affine, fast_affine,
\* diffeo, fast_diffeo, borrow; a role of an earlier stage has filename_reg
\* and transform recorded before a later stage starts; no role is processed
\* in two stages; within a stage the roles follow the computed order; a role
\* configured with mode translation is processed in the translation stage.
C18_StagedByMode ==
    /\ \A i, j \in 1..Len(calls) :
          i < j => /\ calls[i].stage <= calls[j].stage
                   /\ calls[i].stage = calls[j].stage
                        => IndexIn(sorted_keys, calls[i].ser)
                             <= IndexIn(sorted_keys, calls[j].ser)
    /\ \A s, t \in 1..BorrowStage : s # t => RolesAt(s) \cap RolesAt(t) = {}
    /\ \A i \in 1..Len(calls) :
          \A ser \in DOMAIN ser_dict :
             (\E j \in 1..Len(calls) :
                 calls[j].ser = ser /\ calls[j].stage < calls[i].stage)
                => {"filename_reg", "transform"} \subseteq DOMAIN ser_dict[ser]
    /\ pc = "reg_returned"
          => \A ser \in DOMAIN ser_dict :
                ("reg" \in DOMAIN ser_dict[ser]
                   /\ ser_dict[ser].reg = "translation" /\ InputsPresent(ser))
                    => ser \in RolesAt(1)

\* the role whose loop body reg_series executed last, in a geometric stage
AtGeometric(ser) ==
    /\ pc \in {"reg_loop", "reg_raised", "reg_returned"}
    /\ pos[1] \in 1..Len(StageMode)
    /\ sorted_keys[pos[2]] = ser

\* the moving-for-registration file or the resolved target file is missing
InputMissing(ser) ==
    /\ Template(ser_dict, fs, ser) # Missing
    /\ \/ ~isfile(fs, Movingr(ser_dict, ser))
       \/ ~isfile(fs, Template(ser_dict, fs, ser))

\* C19: a role in a geometric mode whose moving-for-registration file or
\* resolved target file is not on disk is skipped: neither the registration
\* engine nor the transform application is invoked for it, and nothing is
\* raised.
C19_MissingInputSkipped ==
    \A ser \in DOMAIN ser_dict :
        (AtGeometric(ser) /\ InputMissing(ser))
            => /\ pc # "reg_raised"
               /\ \A i \in 1..Len(calls) : calls[i].ser # ser

\* the log records of one tool
CallsOf(tool) == { calls[i] : i \in { j \in 1..Len(calls) : calls[j].tool = tool } }

\* C20: for every role reg_series registers, the transform application is
\* executed whenever repeat is true and whenever the warped output is
\* missing; with repeat false and the transform file on disk the engine is
\* not run and the path of that file is recorded as the role's transform.
C20_ApplyRerunsOnRepeat ==
    /\ \A c \in CallsOf("apply") :
          (c.ok /\ ~c.ran) => (~repeat /\ fs[Warped(c.moving)] = 0)
    /\ \A c \in CallsOf("reg") :
          (c.ok /\ ~repeat /\ fs[c.transform] = 0)
             => /\ ~c.ran
                /\ "transform" \in DOMAIN ser_dict[c.ser]
                      => ser_dict[c.ser].transform = c.transform

\* C27: every transform application reg_series issues applies the transform
\* in the forward direction, the invert flag false, whatever repeat is.
C27_ApplyForward ==
    \A c \in CallsOf("apply") : c.ran => ~c.invert

(***************************************************************************)
(* Claims about the diffusion split                                        *)
(***************************************************************************)
\* the volume indices (0-based) with b-value v
IndsWith(v) == { i \in 0..(Len(vol.bvals) - 1) : vol.bvals[i + 1] = v }

\* the elements of an index list
Elems(inds) == { inds[k] : k \in 1..Len(inds) }

\* the voxel sum over a set of indices
RECURSIVE SumOver(_)
SumOver(set) ==
    IF set = {} THEN 0
    ELSE LET i == CHOOSE j \in set : TRUE
         IN  vol.img[i + 1] + SumOver(set \ {i})

\* the greatest b-value
TopBval == CHOOSE b \in Elems(vol.bvals) : \A o \in Elems(vol.bvals) : o <= b

\* C15: with a b-values file the B0 volume is the mean over exactly the
\* volumes with b-value 0, the DWI volume the mean over exactly the volumes
\* with the greatest b-value; the two index sets are disjoint and non-empty
\* when the b-values hold a 0 and a positive value.
C15_SplitByBvalue ==
    (pc = "dwi_split" /\ vol.has_bvals)
        => /\ Elems(vol.split.b0_inds) = IndsWith(0)
           /\ Len(vol.split.b0_inds) = Cardinality(IndsWith(0))
           /\ vol.split.b0_img
                 = <<SumOver(IndsWith(0)), Cardinality(IndsWith(0))>>
           /\ Elems(vol.split.dwi_inds) = IndsWith(TopBval)
           /\ Len(vol.split.dwi_inds) = Cardinality(IndsWith(TopBval))
           /\ vol.split.dwi_img
                 = <<SumOver(IndsWith(TopBval)), Cardinality(IndsWith(TopBval))>>
           /\ (IndsWith(0) # {} /\ TopBval > 0)
                 => /\ Elems(vol.split.b0_inds) \cap Elems(vol.split.dwi_inds) = {}
                    /\ vol.split.b0_inds # <<>>
                    /\ vol.split.dwi_inds # <<>>

\* C15 witness: the b-values [0, 0, 1000, 1000] were split into the volumes
\* {0, 1} and {2, 3}
C15_Witness ==
    /\ pc = "dwi_split" /\ vol.has_bvals
    /\ vol.bvals = <<0, 0, 1000, 1000>>
    /\ vol.split.b0_inds = <<0, 1>>
    /\ vol.split.dwi_inds = <<2, 3>>

(***************************************************************************)
(* Claims about the conversion stage                                       *)
(***************************************************************************)
\* the stage dcm_list_2_niis has returned for the first time in the case
FirstConverted == pc = "converted" /\ run = 1

\* C21: when dcm_list_2_niis returns, every additional volume the converter
\* emitted for a role beyond the role's primary output has been deleted.
C21_ExtrasDeleted ==
    FirstConverted
        => \A series \in DOMAIN ser_dict : ~isfile(fs, Extra(Nii(series)))

\* the role configures a post-processor
Splits(series) == DOMAIN ser_dict[series] \cap {"split", "split_func"} # {}

\* C22: every role whose output file exists after conversion and that
\* configures a post-processor has the post-processor invoked, both when the
\* role was converted in this run and when its output was already there.
C22_PostProcessorAlways ==
    pc = "converted"
        => \A series \in DOMAIN ser_dict :
              (Splits(series) /\ isfile(fs, Nii(series)))
                 => \E i \in 1..Len(calls) :
                       calls[i].tool = "split" /\ calls[i].ser = series

\* the converter produced the primary output of the role in this run of the
\* stage
ConvertedNow(series) ==
    \E i \in 1..Len(calls) :
        calls[i].tool = "dcm2niix" /\ calls[i].ser = series /\ calls[i].ok

\* C26: dcm_list_2_niis deletes no primary output: a role whose file
\* <id>_<role>.nii.gz existed after its conversion step, converted now or
\* found on disk, still has it when the stage returns, whatever repeat is.
C26_PrimaryKept ==
    pc = "converted"
        => \A series \in DOMAIN ser_dict \ {"info"} :
              (ConvertedNow(series) \/ isfile(snap.fs, Nii(series)))
                 => isfile(fs, Nii(series))

(***************************************************************************)
(* Claims about the catalog                                                *)
(***************************************************************************)
\* the files found, and those whose immediate parent directory is direc
FoundFiles == { snap.dcm_list[i] : i \in 1..Len(snap.dcm_list) }
FilesIn(direc) == { f \in FoundFiles : DirName(f) = direc }

\* the files get_series lists for series ind
Listed(ind) == { catalog.dicoms[ind][k] : k \in 1..Len(catalog.dicoms[ind]) }

\* C23: get_series assigns every file found to exactly one series, that of
\* its immediate parent directory: the file lists are pairwise disjoint and
\* their union is the set of files found.
C23_OneSeriesPerFile ==
    pc = "cataloged"
        => /\ \A i \in 1..Len(catalog.dirs) : Listed(i) = FilesIn(catalog.dirs[i])
           /\ \A i, j \in 1..Len(catalog.dirs) :
                 i # j => Listed(i) \cap Listed(j) = {}
           /\ UNION { Listed(i) : i \in 1..Len(catalog.dirs) } = FoundFiles

\* the header of the files of a directory
HeaderOf(direc) == snap.hdr[CHOOSE f \in FilesIn(direc) : TRUE]

\* the description of a header, "none" when it is absent or empty
DescOrNone(hdr) ==
    IF hasattr(hdr, "SeriesDescription") /\ hdr.SeriesDescription # <<>>
    THEN hdr.SeriesDescription ELSE <<"n", "o", "n", "e">>

\* C24: the four lists get_series returns have equal length and index i
\* refers to the same series directory in all of them; a series without
\* description has an entry with the placeholder "none".
C24_ListsAligned ==
    pc = "cataloged"
        => /\ Len(catalog.dicoms) = Len(catalog.dirs)
           /\ Len(catalog.hdrs) = Len(catalog.dirs)
           /\ Len(catalog.series) = Len(catalog.dirs)
           /\ \A i \in 1..Len(catalog.dirs) :
                 LET hdr == HeaderOf(catalog.dirs[i])
                 IN  /\ catalog.hdrs[i] = hdr
                     /\ i <= Len(catalog.series)
                     /\ catalog.series[i]
                          = Display(DescOrNone(hdr), hdr, catalog.dirs[i])

(***************************************************************************)
(* Claims about bias correction and normalisation                          *)
(***************************************************************************)
\* C25: norm_niis skips a flagged role for which bias_correct recorded no
\* filename_bias, raises nothing, and normalizes every other flagged role.
C25_NormSkipsUncorrected ==
    /\ pc # "norm_raised"
    /\ pc = "normalized"
          => \A srs \in DOMAIN ser_dict :
                (Flagged(ser_dict, srs)
                   /\ "filename_bias" \in DOMAIN ser_dict[srs])
                    => /\ "filename_norm" \in DOMAIN ser_dict[srs]
                       /\ isfile(fs, ser_dict[srs].filename_norm)

\* C29: the mask bias_correct requires is the one breast_mask produces: a
\* flagged role whose masked file exists after a successful breast_mask run
\* is not skipped for a missing mask and has filename_bias recorded.
C29_BiasUsesBreastMask ==
    pc = "bias_corrected"
        => \A srs \in DOMAIN ser_dict :
              (Flagged(ser_dict, srs) /\ isfile(fs, BiasInput(srs))
                 /\ isfile(fs, MaskFile))
                  => /\ srs \notin errors
                     /\ "filename_bias" \in DOMAIN ser_dict[srs]

\* C30: for every number n >= 1 of in-mask voxels the two threshold
\* positions are indices from 0 to n - 1 of the sorted values, and the low
\* one is not greater than the high one.
C30_ThresholdsInRange ==
    pc # "truncate"
        => /\ 0 <= vol.lo /\ vol.lo <= vol.n - 1
           /\ 0 <= vol.hi /\ vol.hi <= vol.n - 1
           /\ vol.lo <= vol.hi
           /\ ~vol.raised

(***************************************************************************)
(* Claims about one case                                                   *)
(***************************************************************************)
\* the files of the case that the stages after conversion produce: the
\* manifest, the registered and masked files the bundle names, the metadata
Regenerable ==
    {SeriesListFile, MetaFile, MetaHRFile}
       \cup { ser_dict[ser].filename_reg :
                ser \in { k \in DOMAIN ser_dict \ {"info"} :
                            /\ "filename_reg" \in DOMAIN ser_dict[k]
                            /\ ser_dict[k].filename_reg # ser_dict[k].filename } }
       \cup { ser_dict[ser].filename_masked :
                ser \in { k \in DOMAIN ser_dict :
                            "filename_masked" \in DOMAIN ser_dict[k] } }

\* C28: when proc_mammo_dcm_dir is called with rep true, the manifest, the
\* registered and masked files and the metadata record are written anew by
\* the run.
C28_RepeatRegenerates ==
    (pc = "proc_returned" /\ repeat)
        => \A f \in Regenerable : isfile(fs, f) /\ fs[f] >= 1

====
